---- MODULE Spec2Model ----
(***************************************************************************)
(* Kakuro generator (Znerual/KakuroGenerator, C++ core).                   *)
(*                                                                         *)
(* The model follows src/cpp: KakuroBoard (grid, topology passes),         *)
(* CSPSolver (fill, clue derivation, uniqueness search, repair loop),      *)
(* KakuroDifficultyEstimator (solution counting) and                       *)
(* HybridUniquenessChecker.                                                *)
(*                                                                         *)
(* A cell is a position <<r, c>>.  The board is one record holding the     *)
(* fields of KakuroBoard and of its Cells:                                 *)
(*   type, value, clue_h, clue_v, sector_h, sector_v : per cell, [r][c]    *)
(*   white_cells, sectors_h, sectors_v               : the cached lists    *)
(* std::nullopt of value is 0, of a clue is NoClue, a null sector          *)
(* pointer is the empty sequence.                                          *)
(***************************************************************************)
EXTENDS Integers, Sequences, FiniteSets, TLC

VARIABLES board, pc, st

vars == <<board, pc, st>>

(***************************************************************************)
(* Bounds of the model: the board dimensions handed to KakuroBoard(w, h).  *)
(***************************************************************************)
height == 7
width == 12

BLOCK == "BLOCK"
WHITE == "WHITE"
NoClue == 0 - 1

Rows == 0 .. height - 1
Cols == 0 .. width - 1
Pos == Rows \X Cols
Interior == {p \in Pos : p[1] >= 1 /\ p[1] < height - 1 /\ p[2] >= 1 /\ p[2] < width - 1}

Idx(p) == p[1] * width + p[2]
ColIdx(p) == p[2] * height + p[1]

AllRowMajor == [i \in 1 .. height * width |-> <<(i - 1) \div width, (i - 1) % width>>]
AllColMajor == [i \in 1 .. height * width |-> <<(i - 1) % height, (i - 1) \div height>>]

\* A set of cells as the list a row-major (r outer, c inner) loop builds.
RowMajor(S) == SelectSeq(AllRowMajor, LAMBDA p : p \in S)

\* A set of cells as the list a column-major (c outer, r inner) loop builds.
ColMajor(S) == SelectSeq(AllColMajor, LAMBDA p : p \in S)

Range(s) == {s[i] : i \in 1 .. Len(s)}

Sym(p) == <<height - 1 - p[1], width - 1 - p[2]>>

(***************************************************************************)
(* KakuroBoard: construction and single-cell mutators.                     *)
(***************************************************************************)
NewBoard ==
  [type |-> [r \in Rows |-> [c \in Cols |-> BLOCK]],
   value |-> [r \in Rows |-> [c \in Cols |-> 0]],
   clue_h |-> [r \in Rows |-> [c \in Cols |-> NoClue]],
   clue_v |-> [r \in Rows |-> [c \in Cols |-> NoClue]],
   sector_h |-> [r \in Rows |-> [c \in Cols |-> <<>>]],
   sector_v |-> [r \in Rows |-> [c \in Cols |-> <<>>]],
   white_cells |-> <<>>,
   sectors_h |-> <<>>,
   sectors_v |-> <<>>]

\* get_cell(r, c) != nullptr
InGrid(r, c) == r >= 0 /\ r < height /\ c >= 0 /\ c < width

TypeAt(b, p) == b.type[p[1]][p[2]]

IsWhite(b, r, c) == InGrid(r, c) /\ b.type[r][c] = WHITE

Whites(b) == {p \in Pos : b.type[p[1]][p[2]] = WHITE}

reset_values(b) ==
  [b EXCEPT !.value = [r \in Rows |-> [c \in Cols |-> 0]],
            !.clue_h = [r \in Rows |-> [c \in Cols |-> NoClue]],
            !.clue_v = [r \in Rows |-> [c \in Cols |-> NoClue]]]

set_block(b, r, c) ==
  IF InGrid(r, c) /\ b.type[r][c] # BLOCK
  THEN [b EXCEPT !.type[r][c] = BLOCK, !.value[r][c] = 0]
  ELSE b

\* set_white that checks only that the cell exists.
set_white_in_grid(b, r, c) ==
  IF InGrid(r, c) THEN [b EXCEPT !.type[r][c] = WHITE] ELSE b

set_white(b, r, c) ==
  IF r >= 1 /\ r < height - 1 /\ c >= 1 /\ c < width - 1
  THEN [b EXCEPT !.type[r][c] = WHITE]
  ELSE b

\* set_block on the cell alone, without its partner.
block_single(b, r, c) == set_block(b, r, c)

\* set_block on a cell and on its central-symmetric partner.
block_pair(b, r, c) == set_block(set_block(b, r, c), height - 1 - r, width - 1 - c)

block_sym(b, p) == block_pair(b, p[1], p[2])

collect_white_cells(b) == [b EXCEPT !.white_cells = RowMajor(Whites(b))]

\* The maximal horizontal run of WHITE cells that starts at p.
RECURSIVE RunRight(_, _)
RunRight(b, p) ==
  IF IsWhite(b, p[1], p[2]) THEN <<p>> \o RunRight(b, <<p[1], p[2] + 1>>) ELSE <<>>

RECURSIVE RunDown(_, _)
RunDown(b, p) ==
  IF IsWhite(b, p[1], p[2]) THEN <<p>> \o RunDown(b, <<p[1] + 1, p[2]>>) ELSE <<>>

HStarts(b) == {p \in Whites(b) : ~IsWhite(b, p[1], p[2] - 1)}
VStarts(b) == {p \in Whites(b) : ~IsWhite(b, p[1] - 1, p[2])}

\* The first cell of the maximal run through the WHITE cell p.
RECURSIVE RunStart(_, _, _, _)
RunStart(b, p, dr, dc) ==
  IF IsWhite(b, p[1] - dr, p[2] - dc) THEN RunStart(b, <<p[1] - dr, p[2] - dc>>, dr, dc) ELSE p

\* identify_sectors without the reset of the pointers of the cells of
\* white_cells.
identify_sectors_without_reset(b) ==
  [b EXCEPT
     !.sectors_h = [i \in 1 .. Len(RowMajor(HStarts(b))) |-> RunRight(b, RowMajor(HStarts(b))[i])],
     !.sectors_v = [i \in 1 .. Len(ColMajor(VStarts(b))) |-> RunDown(b, ColMajor(VStarts(b))[i])],
     !.sector_h = [r \in Rows |-> [c \in Cols |->
                     IF b.type[r][c] = WHITE THEN RunRight(b, RunStart(b, <<r, c>>, 0, 1))
                     ELSE b.sector_h[r][c]]],
     !.sector_v = [r \in Rows |-> [c \in Cols |->
                     IF b.type[r][c] = WHITE THEN RunDown(b, RunStart(b, <<r, c>>, 1, 0))
                     ELSE b.sector_v[r][c]]]]

identify_sectors(b) ==
  LET hs == LET st0 == RowMajor(HStarts(b))
            IN [i \in 1 .. Len(st0) |-> RunRight(b, st0[i])]
      vs == LET st0 == ColMajor(VStarts(b))
            IN [i \in 1 .. Len(st0) |-> RunDown(b, st0[i])]
      old == Range(b.white_cells)
  IN [b EXCEPT
        !.sectors_h = hs,
        !.sectors_v = vs,
        !.sector_h = [r \in Rows |-> [c \in Cols |->
                        IF b.type[r][c] = WHITE THEN RunRight(b, RunStart(b, <<r, c>>, 0, 1))
                        ELSE IF <<r, c>> \in old THEN <<>> ELSE b.sector_h[r][c]]],
        !.sector_v = [r \in Rows |-> [c \in Cols |->
                        IF b.type[r][c] = WHITE THEN RunDown(b, RunStart(b, <<r, c>>, 1, 0))
                        ELSE IF <<r, c>> \in old THEN <<>> ELSE b.sector_v[r][c]]]]

stamp_rect(b, r, c, h, w) ==
  LET cells == {<<r + i, c + j>> : i \in 0 .. h - 1, j \in 0 .. w - 1}
      both == cells \cup {<<height - 1 - p[1], width - 1 - p[2]>> : p \in cells}
  IN [b EXCEPT !.type = [i \in Rows |-> [j \in Cols |->
                           IF <<i, j>> \in both /\ <<i, j>> \in Interior
                           THEN WHITE ELSE b.type[i][j]]]]

(***************************************************************************)
(* Seeding: place_random_seed, grow_lattice, generate_stamps.  The random  *)
(* draws are nondeterministic choices, so each operator yields the set of  *)
(* outcomes over all draws.  A loop that gives up after a fixed number of  *)
(* failed draws (20 tries, 2000 attempts, 20 failures) can give up exactly *)
(* at a board where some draw fails, because a failed draw leaves the      *)
(* board unchanged and the same draw may come again.                       *)
(***************************************************************************)
Max(a, b) == IF a >= b THEN a ELSE b
Min(a, b) == IF a <= b THEN a ELSE b

\* set_white on every cell of S, in any order.
SetWhiteAll(b, S) ==
  [b EXCEPT !.type = [i \in Rows |-> [j \in Cols |->
                        IF <<i, j>> \in S /\ <<i, j>> \in Interior
                        THEN WHITE ELSE b.type[i][j]]]]

place_random_seed(b) ==
  LET margin_x == Max(1, width \div 4)
      margin_y == Max(1, height \div 4)
      narrow_r == margin_y >= height - 1 - margin_y
      narrow_c == margin_x >= width - 1 - margin_x
      min_r == IF narrow_r THEN 1 ELSE margin_y
      max_r == IF narrow_r THEN height - 2 ELSE height - 1 - margin_y
      min_c == IF narrow_c THEN 1 ELSE margin_x
      max_c == IF narrow_c THEN width - 2 ELSE width - 1 - margin_x
      draws == (min_r .. max_r) \X (min_c .. max_c)
      good == {d \in draws : /\ d[1] - 1 > 0 /\ d[1] + 1 < height - 1
                             /\ d[2] - 1 > 0 /\ d[2] + 1 < width - 1}
      coords(d) == {d, <<d[1], d[2] - 1>>, <<d[1], d[2] + 1>>,
                    <<d[1] - 1, d[2]>>, <<d[1] + 1, d[2]>>}
  IN {[b |-> collect_white_cells(
               SetWhiteAll(b, coords(d) \cup {Sym(p) : p \in coords(d)})),
       ok |-> TRUE] : d \in good}
     \cup (IF draws \ good # {} THEN {[b |-> b, ok |-> FALSE]} ELSE {})

\* The draws of one iteration of grow_lattice: source cell, orientation and
\* segment length.
GrowDraws(b, max_sector_length) ==
  {d \in [src : Range(b.white_cells), vert : BOOLEAN, len : 2 .. max_sector_length] :
     LET r == d.src[1]
         c == d.src[2]
         has_h == IsWhite(b, r, c - 1) \/ IsWhite(b, r, c + 1)
         has_v == IsWhite(b, r - 1, c) \/ IsWhite(b, r + 1, c)
     IN IF has_h /\ has_v THEN TRUE
        ELSE IF has_h THEN d.vert
        ELSE IF has_v THEN ~d.vert
        ELSE TRUE}

\* The cells of the segment of draw d placed with the given shift.
GrowCells(d, shift) ==
  {IF d.vert THEN <<d.src[1] + k - shift, d.src[2]>> ELSE <<d.src[1], d.src[2] + k - shift>>
   : k \in 0 .. d.len - 1}

\* The shifts with which draw d places something: the segment lies in the
\* interior and holds a BLOCK cell.  The shuffle can put any of them first.
GrowShifts(b, d) ==
  {shift \in 0 .. d.len - 1 :
     /\ GrowCells(d, shift) \subseteq Interior
     /\ \E p \in GrowCells(d, shift) : TypeAt(b, p) = BLOCK}

\* The boards one placing iteration of grow_lattice can produce: the BLOCK
\* cells of the segment and their symmetric partners become WHITE.
GrowPlacements(b, max_sector_length) ==
  {LET new == {p \in GrowCells(d[1], d[2]) : TypeAt(b, p) = BLOCK}
   IN collect_white_cells(SetWhiteAll(b, new \cup {Sym(p) : p \in new}))
   : d \in {e \in GrowDraws(b, max_sector_length) \X (0 .. max_sector_length - 1) :
              e[2] \in GrowShifts(b, e[1])}}

GrowCanFail(b, max_sector_length) ==
  \E d \in GrowDraws(b, max_sector_length) : GrowShifts(b, d) = {}

\* target_white of grow_lattice; the density is given in percent.
target_white(density) == ((width - 2) * (height - 2) * density) \div 100

\* The while loop of grow_lattice, run on the set S of boards still growing:
\* a board leaves the loop when it has reached the target, when it has no
\* cell to grow from, or when its draws keep failing.
RECURSIVE GrowLoop(_, _, _, _)
GrowLoop(S, done, target, max_sector_length) ==
  IF S = {} THEN done
  ELSE LET active == {b \in S : Len(b.white_cells) < target /\ b.white_cells # <<>>}
       IN GrowLoop(UNION {GrowPlacements(b, max_sector_length) : b \in active},
                   done \cup (S \ active)
                        \cup {b \in active : GrowCanFail(b, max_sector_length)},
                   target, max_sector_length)

grow_lattice(b, density, max_sector_length) ==
  GrowLoop({b}, {}, target_white(density), max_sector_length)

\* The stamps one iteration of generate_stamps can place on b: anchor cell,
\* shape and offsets drawn, then the bounds check.
StampDraws(b, shapes) ==
  {d \in [anchor : Range(b.white_cells), shape : shapes] \X Pos :
     /\ d[2][1] \in 0 .. d[1].shape[1] - 1
     /\ d[2][2] \in 0 .. d[1].shape[2] - 1}

\* The bounds check of generate_stamps with the last row and column of the
\* interior allowed.
StampFitsInterior(d) ==
  LET top_r == d[1].anchor[1] - d[2][1]
      left_c == d[1].anchor[2] - d[2][2]
  IN /\ top_r >= 1 /\ left_c >= 1
     /\ top_r + d[1].shape[1] <= height - 1
     /\ left_c + d[1].shape[2] <= width - 1

StampFits(d) ==
  LET top_r == d[1].anchor[1] - d[2][1]
      left_c == d[1].anchor[2] - d[2][2]
  IN /\ top_r >= 1 /\ left_c >= 1
     /\ top_r + d[1].shape[1] < height - 1
     /\ left_c + d[1].shape[2] < width - 1

\* The while loop of generate_stamps, run on the set S of boards that have
\* had current_iter stamps placed.
RECURSIVE StampLoop(_, _, _, _, _)
StampLoop(S, done, shapes, iterations, current_iter) ==
  IF S = {} THEN done
  ELSE IF current_iter >= iterations
  THEN done \cup {[b |-> collect_white_cells(b), ok |-> Whites(b) # {}] : b \in S}
  ELSE LET S1 == {collect_white_cells(b) : b \in S}
           live == {b \in S1 : b.white_cells # <<>>}
       IN StampLoop(
            UNION {{stamp_rect(b, d[1].anchor[1] - d[2][1], d[1].anchor[2] - d[2][2],
                               d[1].shape[1], d[1].shape[2])
                    : d \in {e \in StampDraws(b, shapes) : StampFits(e)}} : b \in live},
            done \cup {[b |-> b, ok |-> FALSE] : b \in S1 \ live}
                 \cup {[b |-> b, ok |-> TRUE]
                       : b \in {x \in live : \E d \in StampDraws(x, shapes) : ~StampFits(d)}},
            shapes, iterations, current_iter + 1)

generate_stamps(b, shapes, iterations) == StampLoop({b}, {}, shapes, iterations, 0)

\* The start of one attempt of generate_topology: the grid is cleared and
\* seeded, by stamps around a centre stamp in island mode, by a random seed
\* and a lattice grown from it otherwise.  ok is `success`.
seed_topology(island_mode, stamps, num_stamps, density, max_sector_length) ==
  IF island_mode
  THEN generate_stamps(stamp_rect(NewBoard, height \div 2 - 1, width \div 2 - 1, 2, 2),
                       stamps, num_stamps)
  ELSE UNION {IF s.ok
              THEN {[b |-> collect_white_cells(g), ok |-> Whites(g) # {}]
                    : g \in grow_lattice(s.b, density, max_sector_length)}
              ELSE {[b |-> s.b, ok |-> FALSE]}
              : s \in place_random_seed(NewBoard)}

(***************************************************************************)
(* Line scans.  A horizontal scan walks a row (fixed = r, i = c), a        *)
(* vertical scan walks a column (fixed = c, i = r).                        *)
(***************************************************************************)
LineCell(is_horz, fixed, i) == IF is_horz THEN <<fixed, i>> ELSE <<i, fixed>>
LineLen(is_horz) == IF is_horz THEN width ELSE height
LineCount(is_horz) == IF is_horz THEN height ELSE width

apply_slice(b, fixed_idx, start, length, is_horz) ==
  LET mid_offset == length \div 2
      r == IF is_horz THEN fixed_idx ELSE start + mid_offset
      c == IF is_horz THEN start + mid_offset ELSE fixed_idx
  IN block_pair(b, r, c)

\* The inner loop of slice_long_runs over one line: indices i .. len - 1, then
\* the check of the run still open at the end of the line.  Every run longer
\* than max_len is sliced in place when its end is seen.
RECURSIVE SliceLine(_, _, _, _, _, _, _, _)
SliceLine(b, max_len, is_horz, fixed, i, length, run_start, changed) ==
  IF i >= LineLen(is_horz)
  THEN IF length > max_len
       THEN [b |-> apply_slice(b, fixed, run_start, length, is_horz), changed |-> TRUE]
       ELSE [b |-> b, changed |-> changed]
  ELSE IF TypeAt(b, LineCell(is_horz, fixed, i)) = WHITE
    THEN SliceLine(b, max_len, is_horz, fixed, i + 1, length + 1,
                   IF run_start = 0 - 1 THEN i ELSE run_start, changed)
  ELSE IF length > max_len
    THEN SliceLine(apply_slice(b, fixed, run_start, length, is_horz),
                   max_len, is_horz, fixed, i + 1, 0, 0 - 1, TRUE)
    ELSE SliceLine(b, max_len, is_horz, fixed, i + 1, 0, 0 - 1, changed)

\* One direction of slice_long_runs: lines fixed .. count - 2.
RECURSIVE SliceLines(_, _, _, _, _)
SliceLines(b, max_len, is_horz, fixed, changed) ==
  IF fixed >= LineCount(is_horz) - 1 THEN [b |-> b, changed |-> changed]
  ELSE LET l == SliceLine(b, max_len, is_horz, fixed, 1, 0, 0 - 1, changed)
       IN IF l.changed
          THEN SliceLines(l.b, max_len, is_horz, fixed + 1, TRUE)
          ELSE SliceLines(b, max_len, is_horz, fixed + 1, FALSE)

slice_long_runs(b, max_len) ==
  LET h == SliceLines(b, max_len, TRUE, 1, FALSE)
  IN SliceLines(h.b, max_len, FALSE, 1, h.changed)

\* dist(rng) < prob with dist uniform on [0, 1): the outcomes the draw can have.
\* prob is given in percent.
SoftDraws(prob) == IF prob >= 100 THEN {TRUE} ELSE IF prob <= 0 THEN {FALSE} ELSE {TRUE, FALSE}

\* The inner loop of slice_soft_runs over one line: as SliceLine, but a run
\* longer than soft_len is sliced only when the draw says so.  The result is
\* the set of outcomes over all draws.
RECURSIVE SoftLine(_, _, _, _, _, _, _, _, _)
SoftLine(b, soft_len, prob, is_horz, fixed, i, length, run_start, changed) ==
  IF i >= LineLen(is_horz)
  THEN IF length > soft_len
       THEN {IF cut
             THEN [b |-> apply_slice(b, fixed, run_start, length, is_horz), changed |-> TRUE]
             ELSE [b |-> b, changed |-> changed]
             : cut \in SoftDraws(prob)}
       ELSE {[b |-> b, changed |-> changed]}
  ELSE IF TypeAt(b, LineCell(is_horz, fixed, i)) = WHITE
    THEN SoftLine(b, soft_len, prob, is_horz, fixed, i + 1, length + 1,
                  IF run_start = 0 - 1 THEN i ELSE run_start, changed)
  ELSE IF length > soft_len
    THEN UNION {IF cut
                THEN SoftLine(apply_slice(b, fixed, run_start, length, is_horz),
                              soft_len, prob, is_horz, fixed, i + 1, 0, 0 - 1, TRUE)
                ELSE SoftLine(b, soft_len, prob, is_horz, fixed, i + 1, 0, 0 - 1, changed)
                : cut \in SoftDraws(prob)}
    ELSE SoftLine(b, soft_len, prob, is_horz, fixed, i + 1, 0, 0 - 1, changed)

\* One direction of slice_soft_runs: lines fixed .. count - 2.
RECURSIVE SoftLines(_, _, _, _, _, _)
SoftLines(b, soft_len, prob, is_horz, fixed, changed) ==
  IF fixed >= LineCount(is_horz) - 1 THEN {[b |-> b, changed |-> changed]}
  ELSE UNION {SoftLines(l.b, soft_len, prob, is_horz, fixed + 1, l.changed)
              : l \in SoftLine(b, soft_len, prob, is_horz, fixed, 1, 0, 0 - 1, changed)}

slice_soft_runs(b, soft_len, prob) ==
  UNION {SoftLines(h.b, soft_len, prob, FALSE, 1, h.changed)
         : h \in SoftLines(b, soft_len, prob, TRUE, 1, FALSE)}

\* The length of the WHITE run that starts at index i of a line.
RECURSIVE RunLen(_, _, _, _)
RunLen(b, is_horz, fixed, i) ==
  IF i < LineLen(is_horz) /\ TypeAt(b, LineCell(is_horz, fixed, i)) = WHITE
  THEN 1 + RunLen(b, is_horz, fixed, i + 1)
  ELSE 0

\* The inner loop of fix_invalid_runs over one line: every run; a run of one
\* cell is blocked, a run longer than 9 is cut at its middle, in place.
RECURSIVE FixLine(_, _, _, _, _)
FixLine(b, is_horz, fixed, i, changed) ==
  IF i >= LineLen(is_horz) THEN [b |-> b, changed |-> changed]
  ELSE IF TypeAt(b, LineCell(is_horz, fixed, i)) = WHITE
    THEN LET start == i
             length == RunLen(b, is_horz, fixed, i)
             mid == start + length \div 2
         IN IF length = 1
            THEN FixLine(block_sym(b, LineCell(is_horz, fixed, start)),
                         is_horz, fixed, i + length, TRUE)
            ELSE IF length > 9
            THEN FixLine(block_sym(b, LineCell(is_horz, fixed, mid)),
                         is_horz, fixed, i + length, TRUE)
            ELSE FixLine(b, is_horz, fixed, i + length, changed)
  ELSE FixLine(b, is_horz, fixed, i + 1, changed)

\* One direction of fix_invalid_runs: lines fixed .. count - 1.
RECURSIVE FixLines(_, _, _, _)
FixLines(b, is_horz, fixed, changed) ==
  IF fixed >= LineCount(is_horz) THEN [b |-> b, changed |-> changed]
  ELSE LET l == FixLine(b, is_horz, fixed, 0, changed)
       IN IF l.changed
          THEN FixLines(l.b, is_horz, fixed + 1, TRUE)
          ELSE FixLines(b, is_horz, fixed + 1, FALSE)

fix_invalid_runs(b) ==
  LET h == FixLines(b, TRUE, 0, FALSE)
  IN FixLines(h.b, FALSE, 0, h.changed)

\* The sweep of fix_invalid_runs_gentle over row r from column c: a WHITE
\* cell with no WHITE neighbour at all is blocked with its symmetric partner.
RECURSIVE GentleRow(_, _, _, _)
GentleRow(b, r, c, changed) ==
  IF c >= width THEN [b |-> b, changed |-> changed]
  ELSE LET h_nb == (c > 0 /\ b.type[r][c - 1] = WHITE)
                   \/ (c < width - 1 /\ b.type[r][c + 1] = WHITE)
           v_nb == (r > 0 /\ b.type[r - 1][c] = WHITE)
                   \/ (r < height - 1 /\ b.type[r + 1][c] = WHITE)
       IN IF b.type[r][c] = WHITE /\ ~h_nb /\ ~v_nb
          THEN GentleRow(block_pair(b, r, c), r, c + 1, TRUE)
          ELSE GentleRow(b, r, c + 1, changed)

RECURSIVE GentleRows(_, _, _)
GentleRows(b, r, changed) ==
  IF r >= height THEN [b |-> b, changed |-> changed]
  ELSE LET l == GentleRow(b, r, 0, changed)
       IN IF l.changed THEN GentleRows(l.b, r + 1, TRUE) ELSE GentleRows(b, r + 1, FALSE)

fix_invalid_runs_gentle(b) ==
  LET g == GentleRows(b, 0, FALSE)
      f == fix_invalid_runs(g.b)
  IN [b |-> f.b, changed |-> g.changed \/ f.changed]

\* The number of WHITE cells met walking from (r, c) in direction (dr, dc).
RECURSIVE CountDir(_, _, _, _, _)
CountDir(b, r, c, dr, dc) ==
  IF IsWhite(b, r, c) THEN 1 + CountDir(b, r + dr, c + dc, dr, dc) ELSE 0

h_len(b, r, c) == 1 + CountDir(b, r, c - 1, 0, 0 - 1) + CountDir(b, r, c + 1, 0, 1)
v_len(b, r, c) == 1 + CountDir(b, r - 1, c, 0 - 1, 0) + CountDir(b, r + 1, c, 1, 0)

\* One sweep of break_single_runs over interior row r from column c, in place.
RECURSIVE BreakRow(_, _, _, _)
BreakRow(b, r, c, changed) ==
  IF c >= width - 1 THEN [b |-> b, changed |-> changed]
  ELSE IF b.type[r][c] = WHITE /\ (h_len(b, r, c) = 1 \/ v_len(b, r, c) = 1)
    THEN BreakRow(block_pair(b, r, c), r, c + 1, TRUE)
    ELSE BreakRow(b, r, c + 1, changed)

RECURSIVE BreakRows(_, _, _)
BreakRows(b, r, changed) ==
  IF r >= height - 1 THEN [b |-> b, changed |-> changed]
  ELSE LET l == BreakRow(b, r, 1, changed)
       IN IF l.changed THEN BreakRows(l.b, r + 1, TRUE) ELSE BreakRows(b, r + 1, FALSE)

\* do { one sweep } while (changed).
RECURSIVE BreakLoop(_, _)
BreakLoop(b, any_change) ==
  LET s == BreakRows(b, 1, FALSE)
  IN IF s.changed THEN BreakLoop(s.b, TRUE) ELSE [b |-> s.b, changed |-> any_change]

break_single_runs(b) ==
  LET l == BreakLoop(b, FALSE)
  IN IF l.changed
     THEN [b |-> identify_sectors(collect_white_cells(l.b)), changed |-> TRUE]
     ELSE l

(***************************************************************************)
(* Connectivity.                                                           *)
(***************************************************************************)
Nbrs(p) == {<<p[1], p[2] + 1>>, <<p[1], p[2] - 1>>, <<p[1] + 1, p[2]>>, <<p[1] - 1, p[2]>>}

\* The breadth-first search of find_components / check_connectivity /
\* ensure_connectivity: the cells of W reached from the frontier.
RECURSIVE Flood(_, _, _)
Flood(W, seen, frontier) ==
  IF frontier = {} THEN seen
  ELSE LET next == (UNION {Nbrs(p) : p \in frontier} \cap W) \ seen
       IN Flood(W, seen \cup next, next)

\* The components in the order the scan over the cell list discovers them.
RECURSIVE ComponentsOf(_, _)
ComponentsOf(W, cells) ==
  IF cells = <<>> THEN <<>>
  ELSE LET comp == Flood(W, {Head(cells)}, {Head(cells)})
       IN <<comp>> \o ComponentsOf(W, SelectSeq(Tail(cells), LAMBDA q : q \notin comp))

\* find_components after its collect_white_cells.
find_components(b) == ComponentsOf(Whites(b), RowMajor(Whites(b)))

\* check_connectivity: its verdict (its collect_white_cells is applied by the caller).
check_connectivity(b) ==
  LET W == Whites(b)
      first == RowMajor(W)[1]
  IN W # {} /\ Cardinality(Flood(W, {first}, {first})) = Cardinality(W)

count_white_neighbors(b, p) == Cardinality({q \in Nbrs(p) : IsWhite(b, q[1], q[2])})

\* try_remove_and_reconnect without the restore of the backup: the removal
\* stays when no bridge is found.
try_remove_without_revert(b, r, c) ==
  IF ~IsWhite(b, r, c) THEN {[b |-> b, ok |-> FALSE]}
  ELSE {[b |-> identify_sectors(collect_white_cells(
                 set_block(set_block(reset_values(b), r, c),
                           height - 1 - r, width - 1 - c))),
         ok |-> Len(find_components(set_block(set_block(b, r, c),
                                              height - 1 - r, width - 1 - c))) <= 1]}

\* The outcomes of try_remove_and_reconnect(r, c): the board it leaves and
\* its return value, one outcome per bridge the random draw can pick.
try_remove_and_reconnect(b, r, c) ==
  IF ~IsWhite(b, r, c) THEN {[b |-> b, ok |-> FALSE]}
  ELSE LET b1 == reset_values(b)
           backup == b1.type
           sym_r == height - 1 - r
           sym_c == width - 1 - c
           b2 == collect_white_cells(
                   [b1 EXCEPT !.type = [i \in Rows |-> [j \in Cols |->
                       IF <<i, j>> = <<r, c>> \/ <<i, j>> = <<sym_r, sym_c>>
                       THEN BLOCK ELSE b1.type[i][j]]]])
           components == find_components(b2)
           touching(p) == {k \in 1 .. Len(components) : Nbrs(p) \cap components[k] # {}}
           bridge_candidates ==
             {p \in Interior : /\ TypeAt(b2, p) = BLOCK
                               /\ p # <<r, c>>
                               /\ p # <<sym_r, sym_c>>
                               /\ Cardinality(touching(p)) >= 2}
       IN IF Len(components) <= 1
          THEN {[b |-> identify_sectors(b2), ok |-> TRUE]}
          ELSE IF bridge_candidates # {}
          THEN {[b |-> identify_sectors(collect_white_cells(
                         set_white(set_white(b2, bridge[1], bridge[2]),
                                   height - 1 - bridge[1], width - 1 - bridge[2]))),
                 ok |-> TRUE] : bridge \in bridge_candidates}
          ELSE {[b |-> identify_sectors(collect_white_cells([b2 EXCEPT !.type = backup])),
                 ok |-> FALSE]}

\* h_nbs == 0 || v_nbs == 0 of prune_singles.
IsSingle(b, p) ==
  LET h_nbs == (IF IsWhite(b, p[1], p[2] - 1) THEN 1 ELSE 0)
               + (IF IsWhite(b, p[1], p[2] + 1) THEN 1 ELSE 0)
      v_nbs == (IF IsWhite(b, p[1] - 1, p[2]) THEN 1 ELSE 0)
               + (IF IsWhite(b, p[1] + 1, p[2]) THEN 1 ELSE 0)
  IN h_nbs = 0 \/ v_nbs = 0

\* The for loop of prune_singles from index i of the cell list: it stops at
\* the first single whose removal succeeds.
RECURSIVE PruneScan(_, _, _)
PruneScan(b, cells, i) ==
  IF i > Len(cells) THEN {[b |-> b, changed |-> FALSE]}
  ELSE IF IsSingle(b, cells[i])
    THEN UNION {IF x.ok
                THEN {[b |-> collect_white_cells(x.b), changed |-> TRUE]}
                ELSE PruneScan(x.b, cells, i + 1)
                : x \in try_remove_and_reconnect(b, cells[i][1], cells[i][2])}
    ELSE PruneScan(b, cells, i + 1)

PruneLimit == 10

\* while (changed && --limit > 0), entered with changed = true, run on the
\* set S of boards whose last sweep changed something.
RECURSIVE PruneLoop(_, _, _, _)
PruneLoop(S, done, limit, any_change) ==
  IF S = {} THEN done
  ELSE IF limit - 1 > 0
  THEN LET xs == UNION {LET b1 == collect_white_cells(b)
                        IN PruneScan(b1, b1.white_cells, 1) : b \in S}
       IN PruneLoop({x.b : x \in {y \in xs : y.changed}},
                    done \cup {[b |-> x.b, changed |-> any_change]
                               : x \in {y \in xs : ~y.changed}},
                    limit - 1, TRUE)
  ELSE done \cup {[b |-> b, changed |-> any_change] : b \in S}

prune_singles(b) == PruneLoop({b}, {}, PruneLimit, FALSE)

\* std::max_element with (a.size() < b.size()): the first of the largest.
FirstLargest(components) ==
  CHOOSE i \in 1 .. Len(components) :
    /\ \A j \in 1 .. Len(components) : Cardinality(components[j]) <= Cardinality(components[i])
    /\ \A j \in 1 .. i - 1 : Cardinality(components[j]) < Cardinality(components[i])

ensure_connectivity(b) ==
  LET b1 == collect_white_cells(b)
      white_set == Range(b1.white_cells)
      components == ComponentsOf(white_set, b1.white_cells)
      largest == components[FirstLargest(components)]
      rest == white_set \ largest
      gone == rest \cup {Sym(p) : p \in rest}
  IN IF b1.white_cells = <<>> THEN [b |-> b1, changed |-> FALSE]
     ELSE [b |-> [b1 EXCEPT
                    !.type = [r \in Rows |-> [c \in Cols |->
                                IF <<r, c>> \in gone THEN BLOCK ELSE b1.type[r][c]]],
                    !.value = [r \in Rows |-> [c \in Cols |->
                                 IF <<r, c>> \in gone /\ b1.type[r][c] # BLOCK
                                 THEN 0 ELSE b1.value[r][c]]]],
           changed |-> rest # {}]

(***************************************************************************)
(* break_large_patches.                                                    *)
(***************************************************************************)
\* is_patch: the size x size square with top-left corner (r, c) is all WHITE.
PatchAt(b, size, r, c) ==
  \A ir \in 0 .. size - 1, ic \in 0 .. size - 1 :
    r + ir < height /\ c + ic < width /\ b.type[r + ir][c + ic] = WHITE

\* Blocking cell p or its partner leaves a one-wide gap at an edge.
creates_gap(b, p) ==
  LET cr == p[1]
      cc == p[2]
      sym_r == height - 1 - cr
      sym_c == width - 1 - cc
  IN \/ cr = 2 /\ b.type[1][cc] = WHITE
     \/ cc = 2 /\ b.type[cr][1] = WHITE
     \/ cr = height - 3 /\ b.type[height - 2][cc] = WHITE
     \/ cc = width - 3 /\ b.type[cr][width - 2] = WHITE
     \/ sym_r = 2 /\ b.type[1][sym_c] = WHITE
     \/ sym_c = 2 /\ b.type[sym_r][1] = WHITE
     \/ sym_r = height - 3 /\ b.type[height - 2][sym_c] = WHITE
     \/ sym_c = width - 3 /\ b.type[sym_r][width - 2] = WHITE

\* The cells the target of one iteration is drawn from, for the first patch
\* found in row-major order; empty when there is no patch.
PatchTargets(b, size) ==
  LET starts == {p \in Pos : /\ p[1] >= 1 /\ p[1] <= height - size
                             /\ p[2] >= 1 /\ p[2] <= width - size
                             /\ PatchAt(b, size, p[1], p[2])}
  IN IF size < 1 \/ starts = {} THEN {}
     ELSE LET first == RowMajor(starts)[1]
              patch_cells == [k \in 1 .. size * size |->
                                <<first[1] + ((k - 1) \div size), first[2] + ((k - 1) % size)>>]
              safe_candidates == {p \in Range(patch_cells) : ~creates_gap(b, p)}
              source_list == IF safe_candidates = {} THEN Range(patch_cells)
                             ELSE safe_candidates
              priority_candidates ==
                {p \in source_list :
                   \E q \in Nbrs(p) : InGrid(q[1], q[2]) /\ TypeAt(b, q) = BLOCK}
          IN IF priority_candidates # {} THEN priority_candidates
             ELSE IF safe_candidates # {} THEN safe_candidates
             ELSE {patch_cells[(size * size) \div 2 + 1]}

PatchIterations == 50

\* The for loop of break_large_patches, run on the set S of boards that have
\* had `iteration` patches broken.
RECURSIVE PatchLoop(_, _, _, _)
PatchLoop(S, done, size, iteration) ==
  IF S = {} THEN done
  ELSE IF iteration >= PatchIterations
  THEN done \cup {[b |-> b, changed |-> iteration > 0] : b \in S}
  ELSE PatchLoop(UNION {{block_sym(b, t) : t \in PatchTargets(b, size)} : b \in S},
                 done \cup {[b |-> b, changed |-> iteration > 0]
                            : b \in {x \in S : PatchTargets(x, size) = {}}},
                 size, iteration + 1)

break_large_patches(b, size) == PatchLoop({b}, {}, size, 0)

(***************************************************************************)
(* stabilize_grid.                                                         *)
(***************************************************************************)
max_loops == 15

\* One iteration of the loop of stabilize_grid on board b: the boards it can
\* leave, each with the iteration's `changed`.
StabilizeIteration(b, gentle) ==
  LET Connected(f, p, s, e) ==
        [b |-> e.b, changed |-> f.changed \/ p.changed \/ s.changed \/ e.changed]
      Broken(f, p, s) == Connected(f, p, s, ensure_connectivity(s.b))
      Pruned(f, p) == Broken(f, p, break_single_runs(p.b))
      Fixed(f) == {Pruned(f, p) : p \in prune_singles(f.b)}
  IN Fixed(IF gentle THEN fix_invalid_runs_gentle(b) ELSE fix_invalid_runs(b))

\* while (changed && iterations < max_loops), run on the set S of boards
\* whose last iteration changed something; then collect_white_cells and
\* identify_sectors.
RECURSIVE StabilizeLoop(_, _, _, _)
StabilizeLoop(S, done, gentle, iterations) ==
  IF S = {} THEN done
  ELSE IF iterations >= max_loops
  THEN done \cup {[b |-> identify_sectors(collect_white_cells(b)),
                   changed |-> iterations > 0] : b \in S}
  ELSE LET Iterated(xs) ==
             StabilizeLoop({x.b : x \in {y \in xs : y.changed}},
                           done \cup {[b |-> identify_sectors(collect_white_cells(x.b)),
                                       changed |-> iterations > 0]
                                      : x \in {y \in xs : ~y.changed}},
                           gentle, iterations + 1)
       IN Iterated(UNION {StabilizeIteration(b, gentle) : b \in S})

\* stabilize_grid without its loop: only the final collect_white_cells and
\* identify_sectors.
stabilize_grid_skipped(b, gentle) ==
  {[b |-> identify_sectors(collect_white_cells(b)), changed |-> FALSE]}

stabilize_grid(b, gentle) == StabilizeLoop({b}, {}, gentle, 0)

(***************************************************************************)
(* The final validations of generate_topology.                             *)
(***************************************************************************)
validate_clue_headers(b) ==
  \A p \in Pos :
    TypeAt(b, p) = WHITE =>
      /\ (p[2] = 0 \/ b.type[p[1]][p[2] - 1] # WHITE)
           => ~(p[2] = 0 \/ b.type[p[1]][p[2] - 1] # BLOCK)
      /\ (p[1] = 0 \/ b.type[p[1] - 1][p[2]] # WHITE)
           => ~(p[1] = 0 \/ b.type[p[1] - 1][p[2]] # BLOCK)

validate_topology_structure(b) ==
  /\ \A i \in 1 .. Len(b.sectors_h) :
       b.sectors_h[i] # <<>> =>
         LET first == b.sectors_h[i][1]
         IN /\ first[2] - 1 >= 0 /\ first[2] - 1 < width
            /\ b.type[first[1]][first[2] - 1] = BLOCK
  /\ \A i \in 1 .. Len(b.sectors_v) :
       b.sectors_v[i] # <<>> =>
         LET first == b.sectors_v[i][1]
         IN /\ first[1] - 1 >= 0 /\ first[1] - 1 < height
            /\ b.type[first[1] - 1][first[2]] = BLOCK
  /\ \A p \in Pos :
       TypeAt(b, p) = BLOCK =>
         /\ b.clue_h[p[1]][p[2]] # NoClue => IsWhite(b, p[1], p[2] + 1)
         /\ b.clue_v[p[1]][p[2]] # NoClue => IsWhite(b, p[1] + 1, p[2])

(***************************************************************************)
(* generate_topology.  P holds the TopologyParams after their defaults:    *)
(* stamps, num_stamps, min_cells, max_run_len, max_run_len_soft,           *)
(* max_run_len_soft_prob (percent), max_patch_size, island_mode, density   *)
(* (percent), max_sector_length.                                           *)
(***************************************************************************)
MAX_TOPOLOGY_LOOPS == 20

\* One iteration of the convergent loop on board b: the boards it can leave,
\* each with the iteration's `changed`.
TopologyIteration(b, P) ==
  IF ~P.island_mode
  THEN UNION {{[b |-> s.b, changed |-> p.changed \/ s.changed]
               : s \in stabilize_grid(p.b, FALSE)}
              : p \in break_large_patches(b, P.max_patch_size)}
  ELSE LET Connected(x, s, e) ==
             [b |-> e.b, changed |-> x.changed \/ s.changed \/ e.changed]
           Broken(x, s) == Connected(x, s, ensure_connectivity(s.b))
           Pruned(patched) ==
             {Broken(x, break_single_runs(x.b))
              : x \in UNION {{[b |-> p.b, changed |-> y.changed \/ p.changed]
                              : p \in prune_singles(y.b)} : y \in patched}}
           Patched(l, soft) ==
             Pruned(UNION {{[b |-> p.b, changed |-> l.changed \/ s.changed \/ p.changed]
                            : p \in break_large_patches(s.b, P.max_patch_size)}
                           : s \in soft})
           Sliced(l) ==
             Patched(l, IF P.max_run_len_soft > 0 /\ P.max_run_len_soft_prob > 0
                        THEN slice_soft_runs(l.b, P.max_run_len_soft, P.max_run_len_soft_prob)
                        ELSE {[b |-> l.b, changed |-> FALSE]})
       IN Sliced(slice_long_runs(b, P.max_run_len))

\* while (changed && iterations < MAX_TOPOLOGY_LOOPS), run on the set S of
\* boards whose last iteration changed something.
RECURSIVE TopologyLoop(_, _, _, _)
TopologyLoop(S, done, P, iterations) ==
  IF S = {} THEN done
  ELSE IF iterations >= MAX_TOPOLOGY_LOOPS THEN done \cup S
  ELSE LET Iterated(xs) ==
             TopologyLoop({x.b : x \in {y \in xs : y.changed}},
                          done \cup {x.b : x \in {y \in xs : ~y.changed}},
                          P, iterations + 1)
       IN Iterated(UNION {TopologyIteration(b, P) : b \in S})

\* The final validation without the test of min_cells.
FinalValidationUnsized(b, P) ==
  LET Structured(b2) == [b |-> b2, ok |-> validate_topology_structure(b2)]
      Collected(b1) ==
        IF ~check_connectivity(b1) THEN [b |-> b1, ok |-> FALSE]
        ELSE IF ~validate_clue_headers(b1) THEN [b |-> b1, ok |-> FALSE]
        ELSE Structured(identify_sectors(b1))
  IN Collected(collect_white_cells(b))

\* The final validation of an attempt: the board it leaves and whether the
\* attempt is accepted.
FinalValidation(b, P) ==
  LET Structured(b2) == [b |-> b2, ok |-> validate_topology_structure(b2)]
      Collected(b1) ==
        IF Len(b1.white_cells) < P.min_cells THEN [b |-> b1, ok |-> FALSE]
        ELSE IF ~check_connectivity(b1) THEN [b |-> b1, ok |-> FALSE]
        ELSE IF ~validate_clue_headers(b1) THEN [b |-> b1, ok |-> FALSE]
        ELSE Structured(identify_sectors(b1))
  IN Collected(collect_white_cells(b))

\* The outcomes of one attempt of generate_topology.
TopologyAttempt(P) ==
  LET Seeded(seeds) ==
        {x \in seeds : ~x.ok}
        \cup {FinalValidation(b, P)
              : b \in TopologyLoop({x.b : x \in {y \in seeds : y.ok}}, {}, P, 0)}
  IN Seeded(seed_topology(P.island_mode, P.stamps, P.num_stamps, P.density,
                          P.max_sector_length))

\* generate_topology(params): the board it leaves and its return value.  It
\* returns true with the first accepted attempt, and false after MAX_RETRIES
\* rejected attempts, which leaves the board of the last of them.
generate_topology(P) == TopologyAttempt(P)

(***************************************************************************)
(* CSPSolver: move validity.  An assignment map is a grid of values with 0 *)
(* for the cells it does not hold; a null assignment is NoAssign.          *)
(***************************************************************************)
NoAssign == [r \in Rows |-> [c \in Cols |-> 0]]

Digits == 1 .. 9

\* The value is_valid_move sees in cell p: the assignment's, else the cell's.
ValOf(b, a, p) == IF a[p[1]][p[2]] > 0 THEN a[p[1]][p[2]] ELSE b.value[p[1]][p[2]]

RECURSIVE SeqSum(_)
SeqSum(s) == IF s = <<>> THEN 0 ELSE Head(s) + SeqSum(Tail(s))

\* RemSum with its loop running while f_min <= remaining_cells: one digit
\* too many.
RECURSIVE RemSumOneMore(_, _, _, _)
RemSumOneMore(i, step, used_mask, k) ==
  IF i < 1 \/ i > 9 \/ k < 0 THEN 0
  ELSE IF i \in used_mask THEN RemSumOneMore(i + step, step, used_mask, k)
  ELSE i + RemSumOneMore(i + step, step, used_mask, k - 1)

\* The sum of the first k digits not in used_mask, walking from i by step:
\* min_rem walks up from 1, max_rem walks down from 9.
RECURSIVE RemSum(_, _, _, _)
RemSum(i, step, used_mask, k) ==
  IF i < 1 \/ i > 9 \/ k <= 0 THEN 0
  ELSE IF i \in used_mask THEN RemSum(i + step, step, used_mask, k)
  ELSE i + RemSum(i + step, step, used_mask, k - 1)

\* The lambda check_sector of is_valid_move.  vals holds the values v > 0
\* that its loop meets in the other cells of the sector.
check_sector(b, a, cell, val, sector, is_horz, ignore_clues) ==
  LET Summed(target, sum, used_mask, remaining_cells) ==
        IF target = NoClue THEN FALSE
        ELSE IF sum > target THEN FALSE
        ELSE IF remaining_cells > 0
          THEN ~(\/ sum + RemSum(1, 1, used_mask, remaining_cells) > target
                 \/ sum + RemSum(9, 0 - 1, used_mask, remaining_cells) < target)
        ELSE sum = target
      Clued(vals, clue_r, clue_c) ==
        IF clue_r < 0 \/ clue_c < 0 THEN FALSE
        ELSE Summed(IF is_horz THEN b.clue_h[clue_r][clue_c] ELSE b.clue_v[clue_r][clue_c],
                    val + SeqSum(vals), {val} \cup Range(vals),
                    Len(sector) - (1 + Len(vals)))
      Met(vals, first) ==
        IF val \in Range(vals) THEN FALSE
        ELSE IF ignore_clues THEN TRUE
        ELSE Clued(vals, IF is_horz THEN first[1] ELSE first[1] - 1,
                   IF is_horz THEN first[2] - 1 ELSE first[2])
      Others(others) ==
        Met(SubSeq([i \in 1 .. Len(others) |-> ValOf(b, a, others[i])], 1, Len(others)),
            sector[1])
  IN IF sector = <<>> THEN TRUE
     ELSE Others(SelectSeq(sector, LAMBDA p : p # cell /\ ValOf(b, a, p) > 0))

is_valid_move(b, a, cell, val, ignore_clues) ==
  /\ check_sector(b, a, cell, val, b.sector_h[cell[1]][cell[2]], TRUE, ignore_clues)
  /\ check_sector(b, a, cell, val, b.sector_v[cell[1]][cell[2]], FALSE, ignore_clues)

get_domain_size(b, a, cell, ignore_clues) ==
  Cardinality({v \in Digits : is_valid_move(b, a, cell, v, ignore_clues)})

is_consistent_number(b, a, var, value, ignore_clues) ==
  IF ignore_clues
  THEN LET has_dupe(sector) ==
             \E i \in 1 .. Len(sector) :
               /\ sector[i] # var
               /\ \/ a[sector[i][1]][sector[i][2]] = value
                  \/ b.value[sector[i][1]][sector[i][2]] = value
       IN ~has_dupe(b.sector_h[var[1]][var[2]]) /\ ~has_dupe(b.sector_v[var[1]][var[2]])
  ELSE is_valid_move(b, a, var, value, ignore_clues)

\* The variable selection shared by backtrack_fill and solve_for_uniqueness:
\* the scan of white_cells from index i for the open cell of least domain.
\* It stops at a cell of empty domain (dead) and at the first domain of one.
RECURSIVE SelectVar(_, _, _, _, _, _, _)
SelectVar(b, a, open, ignore_clues, i, var, min_domain) ==
  IF i > Len(b.white_cells) \/ min_domain = 1 THEN [dead |-> FALSE, var |-> var]
  ELSE IF ~open[i] THEN SelectVar(b, a, open, ignore_clues, i + 1, var, min_domain)
  ELSE LET Sized(d_size) ==
             IF d_size = 0 THEN [dead |-> TRUE, var |-> var]
             ELSE SelectVar(b, a, open, ignore_clues, i + 1,
                            IF d_size < min_domain THEN b.white_cells[i] ELSE var,
                            IF d_size < min_domain THEN d_size ELSE min_domain)
       IN Sized(get_domain_size(b, a, b.white_cells[i], ignore_clues))

\* std::nullptr for `var`.
NoCell == <<>>

(***************************************************************************)
(* CSPSolver: fill.  The random value order of backtrack_fill (the sort of *)
(* weights[i] * dist(rng), which can come out as any permutation) is the   *)
(* next element of the stream the solver's rng produces; a stream is named *)
(* by its seed and `draws` counts the orders drawn from it so far.         *)
(* F holds what stays fixed during one solve_fill: max_nodes, seed,        *)
(* forbidden (the list of ValueConstraints), ignore_clues, expired (what   *)
(* check_timeout answers).  The fills modelled are those with an empty     *)
(* partition_preference and no forced assignments.                         *)
(***************************************************************************)
ValueOrders ==
  <<<<9, 1, 2, 7, 8, 4, 3, 6, 5>>,
    <<1, 8, 9, 3, 7, 2, 6, 4, 5>>,
    <<2, 9, 1, 8, 3, 4, 6, 7, 5>>>>

ValueOrder(seed, draws) == ValueOrders[((seed + draws) % Len(ValueOrders)) + 1]

\* The forbidden list left unread.
ForbiddenIgnored(forbidden, var, val) == FALSE

Forbidden(forbidden, var, val) ==
  \E i \in 1 .. Len(forbidden) : forbidden[i].cell = var /\ val \in forbidden[i].values

RECURSIVE backtrack_fill(_, _, _, _, _)
RECURSIVE FillVals(_, _, _, _, _, _, _, _)

\* The outcome of backtrack_fill: its return value, the assignment, node_count
\* and the number of orders drawn.
backtrack_fill(b, a, node_count, draws, F) ==
  IF node_count > F.max_nodes
  THEN [ok |-> FALSE, a |-> a, n |-> node_count, k |-> draws]
  ELSE IF (node_count + 1) % 1000 = 0 /\ F.expired
  THEN [ok |-> FALSE, a |-> a, n |-> node_count + 1, k |-> draws]
  ELSE LET Tried(var, domain) ==
             FillVals(b, a, var,
                      SelectSeq(domain, LAMBDA val :
                        /\ ~Forbidden(F.forbidden, var, val)
                        /\ is_consistent_number(b, a, var, val, F.ignore_clues)),
                      1, node_count + 1, draws + 1, F)
           Selected(done, sel) ==
             IF done THEN [ok |-> TRUE, a |-> a, n |-> node_count + 1, k |-> draws]
             ELSE IF sel.dead THEN [ok |-> FALSE, a |-> a, n |-> node_count + 1, k |-> draws]
             ELSE Tried(sel.var, ValueOrder(F.seed, draws))
           Open(open) ==
             Selected(\A i \in 1 .. Len(b.white_cells) : ~open[i],
                      SelectVar(b, a, open, F.ignore_clues, 1, NoCell, 10))
       IN Open([i \in 1 .. Len(b.white_cells) |->
                  a[b.white_cells[i][1]][b.white_cells[i][2]] = 0])

\* The loop of backtrack_fill over the values that pass its checks, from the
\* i-th on; a failed subtree hands on its node_count and draws.
FillVals(b, a, var, tried, i, node_count, draws, F) ==
  IF i > Len(tried) THEN [ok |-> FALSE, a |-> a, n |-> node_count, k |-> draws]
  ELSE LET Filled(r) == IF r.ok THEN r ELSE FillVals(b, a, var, tried, i + 1, r.n, r.k, F)
       IN Filled(backtrack_fill(b, [a EXCEPT ![var[1]][var[2]] = tried[i]],
                                node_count, draws, F))

\* solve_fill(params, {}, forbidden_constraints, ignore_clues): on success the
\* assignment is written to the cells.
solve_fill(b, draws, F) ==
  LET Written(r) ==
        [ok |-> r.ok,
         b |-> IF r.ok
               THEN [b EXCEPT !.value = [i \in Rows |-> [j \in Cols |->
                                           IF r.a[i][j] > 0 THEN r.a[i][j] ELSE b.value[i][j]]]]
               ELSE b,
         n |-> r.n,
         k |-> r.k]
  IN Written(backtrack_fill(b, NoAssign, 0, draws, F))

\* calculate_clues that also writes a clue of 0 on the cell after the last
\* cell of each horizontal sector when that cell heads no sector.
calculate_clues_closing(b) ==
  LET Summed(b1) ==
        LET Sum(sector) ==
              SeqSum([i \in 1 .. Len(sector) |-> b1.value[sector[i][1]][sector[i][2]]])
        IN [b1 EXCEPT
              !.clue_h = [r \in Rows |-> [c \in Cols |->
                            IF \E i \in 1 .. Len(b1.sectors_h) :
                                 b1.sectors_h[i][1] = <<r, c + 1>>
                            THEN Sum(b1.sectors_h[CHOOSE i \in 1 .. Len(b1.sectors_h) :
                                                    b1.sectors_h[i][1] = <<r, c + 1>>])
                            ELSE IF \E i \in 1 .. Len(b1.sectors_h) :
                                      b1.sectors_h[i][Len(b1.sectors_h[i])] = <<r, c - 1>>
                            THEN 0
                            ELSE NoClue]],
              !.clue_v = [r \in Rows |-> [c \in Cols |->
                            IF \E i \in 1 .. Len(b1.sectors_v) :
                                 b1.sectors_v[i][1] = <<r + 1, c>>
                            THEN Sum(b1.sectors_v[CHOOSE i \in 1 .. Len(b1.sectors_v) :
                                                    b1.sectors_v[i][1] = <<r + 1, c>>])
                            ELSE NoClue]]]
  IN Summed(identify_sectors([b EXCEPT !.clue_h = [r \in Rows |-> [c \in Cols |-> NoClue]],
                                       !.clue_v = [r \in Rows |-> [c \in Cols |-> NoClue]]]))

calculate_clues(b) ==
  LET Summed(b1) ==
        LET Sum(sector) ==
              SeqSum([i \in 1 .. Len(sector) |-> b1.value[sector[i][1]][sector[i][2]]])
        IN [b1 EXCEPT
              !.clue_h = [r \in Rows |-> [c \in Cols |->
                            IF \E i \in 1 .. Len(b1.sectors_h) :
                                 b1.sectors_h[i][1] = <<r, c + 1>>
                            THEN Sum(b1.sectors_h[CHOOSE i \in 1 .. Len(b1.sectors_h) :
                                                    b1.sectors_h[i][1] = <<r, c + 1>>])
                            ELSE NoClue]],
              !.clue_v = [r \in Rows |-> [c \in Cols |->
                            IF \E i \in 1 .. Len(b1.sectors_v) :
                                 b1.sectors_v[i][1] = <<r + 1, c>>
                            THEN Sum(b1.sectors_v[CHOOSE i \in 1 .. Len(b1.sectors_v) :
                                                    b1.sectors_v[i][1] = <<r + 1, c>>])
                            ELSE NoClue]]]
  IN Summed(identify_sectors([b EXCEPT !.clue_h = [r \in Rows |-> [c \in Cols |-> NoClue]],
                                       !.clue_v = [r \in Rows |-> [c \in Cols |-> NoClue]]]))

\* has_high_global_ambiguity with the domains taken without the clues.
has_high_global_ambiguity_without_clues(b) ==
  Cardinality({i \in 1 .. Len(b.white_cells) :
                 get_domain_size(b, NoAssign, b.white_cells[i], TRUE) >= 4}) >= 3

has_high_global_ambiguity(b) ==
  Cardinality({i \in 1 .. Len(b.white_cells) :
                 get_domain_size(b, NoAssign, b.white_cells[i], FALSE) >= 4}) >= 3

(***************************************************************************)
(* CSPSolver: uniqueness.  std::shuffle with an engine seeded by           *)
(* seed + node_count is a fixed function of that number which the library  *)
(* chooses; Shuffles is such a function, of period Len(Shuffles).          *)
(* std::partition then moves the one value that fails its predicate into   *)
(* the last place by swapping it with the last element.                    *)
(* U holds what stays fixed during one check: max_nodes, seed, expired.    *)
(***************************************************************************)
Shuffles ==
  <<<<4, 9, 2, 7, 5, 1, 8, 3, 6>>,
    <<1, 2, 3, 4, 5, 6, 7, 8, 9>>,
    <<7, 3, 8, 1, 6, 9, 2, 5, 4>>,
    <<9, 8, 7, 6, 5, 4, 3, 2, 1>>,
    <<2, 6, 4, 9, 1, 3, 5, 8, 7>>,
    <<5, 1, 9, 3, 8, 2, 7, 4, 6>>,
    <<6, 5, 1, 8, 3, 7, 4, 9, 2>>>>

Shuffle(n) == Shuffles[(n % Len(Shuffles)) + 1]

Partition(vals, target_val) ==
  LET i == CHOOSE j \in 1 .. Len(vals) : vals[j] = target_val
  IN [j \in 1 .. Len(vals) |->
        IF j = i THEN vals[Len(vals)] ELSE IF j = Len(vals) THEN target_val ELSE vals[j]]

UNIQUE == "UNIQUE"
MULTIPLE == "MULTIPLE"
INCONCLUSIVE == "INCONCLUSIVE"

RECURSIVE solve_for_uniqueness(_, _, _, _)
RECURSIVE UniqVals(_, _, _, _, _, _, _)

\* The outcome of solve_for_uniqueness on the board's present values:
\* found_solutions, node_count, timed_out and the board as the call leaves it.
solve_for_uniqueness(b, avoid_sol, node_count, U) ==
  IF node_count > U.max_nodes
  THEN [found |-> <<>>, n |-> node_count, timed_out |-> TRUE, b |-> b]
  ELSE IF (node_count + 1) % 1000 = 0 /\ U.expired
  THEN [found |-> <<>>, n |-> node_count + 1, timed_out |-> TRUE, b |-> b]
  ELSE LET Tried(var, vals) ==
             UniqVals(b, avoid_sol, var,
                      SelectSeq(vals, LAMBDA v : is_valid_move(b, NoAssign, var, v, FALSE)),
                      1, node_count + 1, U)
           Selected(sel) ==
             IF sel.dead
             THEN [found |-> <<>>, n |-> node_count + 1, timed_out |-> FALSE, b |-> b]
             ELSE IF sel.var = NoCell
             THEN [found |-> IF \E i \in 1 .. Len(b.white_cells) :
                                  b.value[b.white_cells[i][1]][b.white_cells[i][2]]
                                    # avoid_sol[b.white_cells[i][1]][b.white_cells[i][2]]
                             THEN <<b.value>> ELSE <<>>,
                   n |-> node_count + 1, timed_out |-> FALSE, b |-> b]
             ELSE Tried(sel.var, Partition(Shuffle(U.seed + node_count + 1),
                                           avoid_sol[sel.var[1]][sel.var[2]]))
       IN Selected(SelectVar(b, NoAssign,
                             [i \in 1 .. Len(b.white_cells) |->
                                b.value[b.white_cells[i][1]][b.white_cells[i][2]] = 0],
                             FALSE, 1, NoCell, 10))

\* The loop of solve_for_uniqueness over the valid values, from the i-th on:
\* var takes the value, the search goes down, var is cleared.
UniqVals(b, avoid_sol, var, valid, i, node_count, U) ==
  IF i > Len(valid) THEN [found |-> <<>>, n |-> node_count, timed_out |-> FALSE, b |-> b]
  ELSE LET Left(r, left) ==
             IF r.found # <<>> \/ r.timed_out THEN [r EXCEPT !.b = left]
             ELSE UniqVals(left, avoid_sol, var, valid, i + 1, r.n, U)
           Searched(r) == Left(r, [r.b EXCEPT !.value[var[1]][var[2]] = 0])
       IN Searched(solve_for_uniqueness([b EXCEPT !.value[var[1]][var[2]] = valid[i]],
                                        avoid_sol, node_count, U))

\* restore_values left out: the board as the search left it.
keep_values(after, listed, original_sol_coords) == after

\* The values of the listed cells put back from original_sol: the last loop
\* of check_uniqueness, on the board `after` that the search left.
restore_values(after, listed, original_sol_coords) ==
  [after EXCEPT !.value = [r \in Rows |-> [c \in Cols |->
                             IF <<r, c>> \in listed THEN original_sol_coords[r][c]
                             ELSE after.value[r][c]]]]

\* check_uniqueness that returns UNIQUE whenever found is empty, whether or
\* not the search was cut short.
check_uniqueness_trusting(b, max_nodes, seed_offset, expired) ==
  LET Judged(r, restored) ==
        IF r.found # <<>>
        THEN [result |-> MULTIPLE, alt |-> r.found, n |-> r.n,
              timed_out |-> r.timed_out, b |-> restored]
        ELSE [result |-> UNIQUE, alt |-> <<>>, n |-> r.n, timed_out |-> r.timed_out,
              b |-> restored]
      Restored(r, listed, original_sol_coords) ==
        Judged(r, restore_values(r.b, listed, original_sol_coords))
      Searched(listed, original_sol_coords) ==
        Restored(solve_for_uniqueness(
                   [b EXCEPT !.value = [r \in Rows |-> [c \in Cols |->
                                          IF <<r, c>> \in listed THEN 0 ELSE b.value[r][c]]]],
                   original_sol_coords, 0,
                   [max_nodes |-> max_nodes, seed |-> seed_offset, expired |-> expired]),
                 listed, original_sol_coords)
      Listed(listed) ==
        Searched(listed, [r \in Rows |-> [c \in Cols |->
                            IF <<r, c>> \in listed THEN b.value[r][c] ELSE 0]])
  IN Listed(Range(b.white_cells))

\* check_uniqueness(max_nodes, seed_offset) on a board whose white cells all
\* hold a value: the verdict, the witness, node_count, timed_out and the
\* board it leaves.
check_uniqueness(b, max_nodes, seed_offset, expired) ==
  LET Judged(r, restored) ==
        IF r.found # <<>>
        THEN [result |-> MULTIPLE, alt |-> r.found, n |-> r.n,
              timed_out |-> r.timed_out, b |-> restored]
        ELSE IF r.timed_out
        THEN [result |-> INCONCLUSIVE, alt |-> <<>>, n |-> r.n, timed_out |-> TRUE,
              b |-> restored]
        ELSE [result |-> UNIQUE, alt |-> <<>>, n |-> r.n, timed_out |-> FALSE,
              b |-> restored]
      Restored(r, listed, original_sol_coords) ==
        Judged(r, restore_values(r.b, listed, original_sol_coords))
      Searched(listed, original_sol_coords) ==
        Restored(solve_for_uniqueness(
                   [b EXCEPT !.value = [r \in Rows |-> [c \in Cols |->
                                          IF <<r, c>> \in listed THEN 0 ELSE b.value[r][c]]]],
                   original_sol_coords, 0,
                   [max_nodes |-> max_nodes, seed |-> seed_offset, expired |-> expired]),
                 listed, original_sol_coords)
      Listed(listed) ==
        Searched(listed, [r \in Rows |-> [c \in Cols |->
                            IF <<r, c>> \in listed THEN b.value[r][c] ELSE 0]])
  IN Listed(Range(b.white_cells))

(***************************************************************************)
(* KakuroDifficultyEstimator: the solution count.  A CandidateMap gives    *)
(* each white cell, by its place in white_cells, its candidate digits in   *)
(* ascending order.  E is the estimator's search state: found_solutions,   *)
(* nodes (nodes_explored) and aborted (search_aborted).  The logic passes  *)
(* of run_solve_loop touch neither the board nor found_solutions; what     *)
(* they leave behind for discover_solutions is nodes_explored, which is an *)
(* input here.                                                             *)
(***************************************************************************)
MAX_NODES == 50000000

\* The function f with every value computed.
Strict(f) == IF DOMAIN f = {} THEN f ELSE [f EXCEPT ![CHOOSE x \in DOMAIN f : TRUE] = @]

\* The set S with its elements computed.
Enumerated(S) == IF Cardinality(S) >= 0 THEN S ELSE {}

\* The loop of bt with bt(t - i, k - 1, i): a digit may be taken again.
RECURSIVE bt(_, _, _, _)
RECURSIVE btLoopRepeat(_, _, _, _)
btLoopRepeat(t, k, i, cur) ==
  IF i > 9 \/ i > t THEN <<>>
  ELSE bt(t - i, k - 1, i, Append(cur, i)) \o btLoopRepeat(t, k, i + 1, cur)

\* The loop of the lambda bt of get_partitions from digit i on, and what it
\* pushes to res.
RECURSIVE btLoop(_, _, _, _)
btLoop(t, k, i, cur) ==
  IF i > 9 \/ i > t THEN <<>>
  ELSE bt(t - i, k - 1, i + 1, Append(cur, i)) \o btLoop(t, k, i + 1, cur)

\* The lambda bt(t, k, s) of get_partitions with cur as it stands: what the
\* call pushes to res.
bt(t, k, s, cur) ==
  IF k = 0 THEN (IF t = 0 THEN <<cur>> ELSE <<>>)
  ELSE btLoop(t, k, s, cur)

\* get_partitions(sum, len) when partition_cache has no entry for it.
get_partitions(sum, len) == bt(sum, len, 1, <<>>)

\* get_partitions(sum, len) with partition_cache as it stands: the answer
\* and the cache it leaves.
\* get_partitions with a table that keeps the entry of the last query only.
get_partitions_last_only(partition_cache, sum, len) ==
  IF <<sum, len>> \in DOMAIN partition_cache
  THEN [ret |-> partition_cache[<<sum, len>>],
        partition_cache |-> (<<sum, len>> :> partition_cache[<<sum, len>>]), hit |-> TRUE]
  ELSE [ret |-> get_partitions(sum, len),
        partition_cache |-> (<<sum, len>> :> get_partitions(sum, len)), hit |-> FALSE]

get_partitions_cached(partition_cache, sum, len) ==
  IF <<sum, len>> \in DOMAIN partition_cache
  THEN [ret |-> partition_cache[<<sum, len>>], partition_cache |-> partition_cache,
        hit |-> TRUE]
  ELSE LET res == get_partitions(sum, len)
       IN [ret |-> res, partition_cache |-> partition_cache @@ (<<sum, len>> :> res),
           hit |-> FALSE]

\* The mask with the bits of the digits of the partitions ps, as the set of
\* those digits.
PartitionMask(ps) == UNION {Range(ps[i]) : i \in 1 .. Len(ps)}

\* The key (sum << 8) | len of partition_mask_cache, for a sum that is not
\* negative and a len of one byte, as the int that the uint32_t key is
\* converted from: a negative len has every higher bit set.
MaskKey(sum, len) == IF len >= 0 THEN (sum * 256) + len ELSE len

\* get_partition_bits(sum, len) with both caches as they stand.
get_partition_bits_cached(partition_cache, partition_mask_cache, sum, len) ==
  IF MaskKey(sum, len) \in DOMAIN partition_mask_cache
  THEN [ret |-> partition_mask_cache[MaskKey(sum, len)], partition_cache |-> partition_cache,
        partition_mask_cache |-> partition_mask_cache, hit |-> TRUE]
  ELSE LET partitions == get_partitions_cached(partition_cache, sum, len)
           mask == PartitionMask(partitions.ret)
       IN [ret |-> mask, partition_cache |-> partitions.partition_cache,
           partition_mask_cache |-> partition_mask_cache @@ (MaskKey(sum, len) :> mask),
           hit |-> FALSE]

\* partition_mask_cache, filled: the masks of the sums and lengths that
\* sectors of digits can have.
PartitionBits ==
  Strict([len \in 1 .. 9 |->
            Strict([sum \in 0 .. 45 |-> Enumerated(PartitionMask(get_partitions(sum, len)))])])

get_partition_bits(sum, len) ==
  IF sum \in 0 .. 45 /\ len \in 1 .. 9 THEN PartitionBits[len][sum]
  ELSE Enumerated(PartitionMask(get_partitions(sum, len)))

ALL_CANDIDATES == <<1, 2, 3, 4, 5, 6, 7, 8, 9>>

CellIndex(b, p) == CHOOSE i \in 1 .. Len(b.white_cells) : b.white_cells[i] = p

\* all_sectors of the constructor: the sectors that have a clue, with it;
\* idx names the sector's cells by their places in white_cells.
all_sectors(b) ==
  LET Info(s, is_h) ==
        LET r == IF is_h THEN s[1][1] ELSE s[1][1] - 1
            c == IF is_h THEN s[1][2] - 1 ELSE s[1][2]
        IN [cells |-> s, is_h |-> is_h,
            idx |-> Strict([k \in 1 .. Len(s) |-> CellIndex(b, s[k])]),
            clue |-> IF s = <<>> \/ ~InGrid(r, c) THEN NoClue
                     ELSE IF is_h THEN b.clue_h[r][c] ELSE b.clue_v[r][c]]
      hs == [i \in 1 .. Len(b.sectors_h) |-> Info(b.sectors_h[i], TRUE)]
      vs == [i \in 1 .. Len(b.sectors_v) |-> Info(b.sectors_v[i], FALSE)]
  IN SelectSeq(hs \o vs, LAMBDA s : s.clue # NoClue)

is_limit_exceeded(E, est_expired) ==
  IF E.aborted THEN [e |-> E, x |-> TRUE]
  ELSE IF E.nodes + 1 > MAX_NODES
  THEN [e |-> [E EXCEPT !.nodes = E.nodes + 1, !.aborted = TRUE], x |-> TRUE]
  ELSE IF (E.nodes + 1) % 500 = 0 /\ est_expired
  THEN [e |-> [E EXCEPT !.nodes = E.nodes + 1, !.aborted = TRUE], x |-> TRUE]
  ELSE [e |-> [E EXCEPT !.nodes = E.nodes + 1], x |-> FALSE]

apply_sector_constraints(sec, candidates, aborted) ==
  IF aborted THEN [c |-> candidates, changed |-> FALSE]
  ELSE
  LET n == Len(sec.idx)
      In(i) == \E k \in 1 .. n : sec.idx[k] = i
      Place(i) == CHOOSE k \in 1 .. n : sec.idx[k] = i
      Answer(c3) == [c |-> c3, changed |-> c3 # candidates]
      Solved(c2, solved_mask) ==
        Answer(Strict([i \in DOMAIN candidates |->
                         IF In(i) /\ Len(c2[i]) > 1
                         THEN SelectSeq(c2[i], LAMBDA v : v \notin solved_mask)
                         ELSE c2[i]]))
      Bounded(c2) ==
        Solved(c2, {c2[sec.idx[k]][1] : k \in {j \in 1 .. n : Len(c2[sec.idx[j]]) = 1}})
      Sums(c1, c_mins, c_maxs, total_min, total_max) ==
        Bounded(IF n > 1
                THEN Strict([i \in DOMAIN candidates |->
                               IF In(i)
                               THEN SelectSeq(c1[i], LAMBDA v :
                                      ~(\/ v + (total_min - c_mins[Place(i)]) > sec.clue
                                        \/ v + (total_max - c_maxs[Place(i)]) < sec.clue))
                               ELSE c1[i]])
                ELSE c1)
      Extremes(c1, c_mins, c_maxs) == Sums(c1, c_mins, c_maxs, SeqSum(c_mins), SeqSum(c_maxs))
      Masked(c1) ==
        Extremes(c1,
                 Strict([k \in 1 .. n |->
                           IF c1[sec.idx[k]] = <<>> THEN 10 ELSE c1[sec.idx[k]][1]]),
                 Strict([k \in 1 .. n |->
                           IF c1[sec.idx[k]] = <<>> THEN 0
                           ELSE c1[sec.idx[k]][Len(c1[sec.idx[k]])]]))
      Allowed(allowed) ==
        Masked(Strict([i \in DOMAIN candidates |->
                         IF In(i) THEN SelectSeq(candidates[i], LAMBDA v : v \in allowed)
                         ELSE candidates[i]]))
  IN Allowed(get_partition_bits(sec.clue, n))

\* One sweep of discover_solutions over all_sectors, from the i-th on.
RECURSIVE SectorSweep(_, _, _, _)
SectorSweep(sectors, candidates, i, progress) ==
  IF i > Len(sectors) THEN [c |-> candidates, progress |-> progress]
  ELSE LET Swept(a) == SectorSweep(sectors, a.c, i + 1, a.changed \/ progress)
       IN Swept(apply_sector_constraints(sectors[i], candidates, FALSE))

RECURSIVE Sweeps(_, _, _)
Sweeps(sectors, candidates, i) ==
  IF i >= 3 THEN candidates
  ELSE LET Again(s) == IF ~s.progress THEN s.c ELSE Sweeps(sectors, s.c, i + 1)
       IN Again(SectorSweep(sectors, candidates, 1, FALSE))

verify_math(sectors, sol) ==
  \A k \in 1 .. Len(sectors) :
    LET vals == [i \in 1 .. Len(sectors[k].idx) |-> sol[sectors[k].idx[i]]]
    IN /\ SeqSum(vals) = sectors[k].clue
       /\ Cardinality(Range(vals)) = Len(vals)

RECURSIVE discover_solutions(_, _, _, _, _)
RECURSIVE DiscoverVals(_, _, _, _, _, _, _)

\* The place of the first cell of white_cells with the fewest candidates
\* above one; 0 for none.
MrvCell(candidates) ==
  LET multi == {i \in DOMAIN candidates : Len(candidates[i]) > 1}
  IN IF multi = {} THEN 0
     ELSE CHOOSE i \in multi :
            \A j \in multi : \/ Len(candidates[i]) < Len(candidates[j])
                             \/ (Len(candidates[i]) = Len(candidates[j]) /\ i <= j)

discover_solutions(sectors, candidates, limit, E, est_expired) ==
  IF Len(E.found) >= limit THEN E
  ELSE LET Leaf(e, sol) ==
             IF verify_math(sectors, sol) /\ \A k \in 1 .. Len(e.found) : e.found[k] # sol
             THEN [e EXCEPT !.found = Append(e.found, sol)]
             ELSE e
           Branch(e, c1, mrv) ==
             IF mrv = 0 THEN Leaf(e, Strict([i \in DOMAIN c1 |-> c1[i][1]]))
             ELSE DiscoverVals(sectors, c1, limit, e, est_expired, mrv, 1)
           Pruned(e, c1) ==
             IF \E i \in DOMAIN c1 : c1[i] = <<>> THEN e ELSE Branch(e, c1, MrvCell(c1))
           Counted(l) == IF l.x THEN l.e ELSE Pruned(l.e, Sweeps(sectors, candidates, 0))
       IN Counted(is_limit_exceeded(E, est_expired))

\* The loop of discover_solutions over the candidates of the chosen cell,
\* from the k-th on.
DiscoverVals(sectors, candidates, limit, E, est_expired, mrv, k) ==
  IF k > Len(candidates[mrv]) THEN E
  ELSE IF E.aborted THEN E
  ELSE LET Tried(E1) ==
             IF Len(E1.found) >= limit THEN E1
             ELSE DiscoverVals(sectors, candidates, limit, E1, est_expired, mrv, k + 1)
       IN Tried(discover_solutions(sectors,
                                   [candidates EXCEPT ![mrv] = <<candidates[mrv][k]>>],
                                   limit, E, est_expired))

\* The search state estimate_difficulty_detailed ends with, given
\* nodes_explored as the logic passes left it; a solution lists the digits of
\* the white cells in white_cells order.
estimate(b, nodes_explored, est_expired) ==
  LET E == [found |-> <<>>, nodes |-> nodes_explored, aborted |-> FALSE]
      Search(sectors) ==
        IF b.white_cells = <<>> \/ sectors = <<>> THEN E
        ELSE discover_solutions(sectors, [i \in 1 .. Len(b.white_cells) |-> ALL_CANDIDATES],
                                3, E, est_expired)
  IN Search(all_sectors(b))

\* DifficultyResult.solution_count.
solution_count(b, nodes_explored, est_expired) ==
  Len(estimate(b, nodes_explored, est_expired).found)

\* cell_to_h[cell] and cell_to_v[cell] for the cell at place i: the clue and
\* length of its clued sector of that direction; the default of the map, 0
\* and 0, for a cell that has none.
SectorMetadata(sectors, i, is_h) ==
  LET own == {k \in 1 .. Len(sectors) :
                sectors[k].is_h = is_h /\ \E j \in 1 .. Len(sectors[k].idx) : sectors[k].idx[j] = i}
  IN IF own = {} THEN [clue |-> 0, length |-> 0]
     ELSE LET k == CHOOSE x \in own : \A y \in own : y <= x
          IN [clue |-> sectors[k].clue, length |-> Len(sectors[k].idx)]

\* A technique's answer: the candidates it leaves, solve_log, and what it
\* returned.
Step(c, log, ret) == [c |-> c, log |-> log, ret |-> ret]

Logged(log, silent, technique, cells_affected) ==
  IF silent THEN log
  ELSE Append(log, [technique |-> technique, cells_affected |-> cells_affected])

find_unique_intersections(sectors, candidates, log, silent) ==
  LET Counted(new, affected) ==
        Step(new,
             IF affected > 0 THEN Logged(log, silent, "unique_intersection", affected) ELSE log,
             new # candidates)
      Masked(new) ==
        Counted(new, Cardinality({i \in DOMAIN candidates :
                                    new[i] # candidates[i] /\ Len(new[i]) = 1}))
      Both(cs, h, v) ==
        LET Masks(h_mask, v_mask) == SelectSeq(cs, LAMBDA d : d \in h_mask /\ d \in v_mask)
        IN Masks(get_partition_bits(h.clue, h.length), get_partition_bits(v.clue, v.length))
  IN Masked(Strict([i \in DOMAIN candidates |->
                      IF Len(candidates[i]) <= 1 THEN candidates[i]
                      ELSE Both(candidates[i], SectorMetadata(sectors, i, TRUE),
                                SectorMetadata(sectors, i, FALSE))]))

\* find_naked_singles: counts the cells of one candidate not yet logged; in
\* silent mode it logs nothing and returns false.
find_naked_singles(candidates, logged_singles, log, silent, iteration) ==
  LET before == IF ~silent /\ iteration = 1 THEN {} ELSE logged_singles
      fresh == {i \in DOMAIN candidates : Len(candidates[i]) = 1 /\ i \notin before}
      newly_solved == Cardinality(fresh)
  IN [logged_singles |-> IF silent THEN before ELSE before \cup fresh,
      log |-> IF newly_solved > 0
              THEN Logged(log, silent, "elimination_singles", newly_solved) ELSE log,
      ret |-> newly_solved > 0 /\ ~silent]

RECURSIVE PropagateFrom(_, _, _, _, _, _)
PropagateFrom(sectors, candidates, aborted, k, changed, affected_cells) ==
  IF k > Len(sectors) THEN [c |-> candidates, changed |-> changed, affected |-> affected_cells]
  ELSE LET Applied(a) ==
             PropagateFrom(sectors, a.c, aborted, k + 1, a.changed \/ changed,
                           IF a.changed THEN affected_cells + Len(sectors[k].idx)
                           ELSE affected_cells)
       IN Applied(apply_sector_constraints(sectors[k], candidates, aborted))

apply_constraint_propagation(sectors, candidates, aborted, log, silent) ==
  LET Propagated(p) ==
        Step(p.c, IF p.changed THEN Logged(log, silent, "constraint_propagation", p.affected)
                  ELSE log,
             p.changed)
  IN Propagated(PropagateFrom(sectors, candidates, aborted, 1, FALSE, 0))

\* The loop of apply_simple_partitions over all_sectors from the k-th on.
RECURSIVE SimplePartitionsFrom(_, _, _, _)
SimplePartitionsFrom(sectors, candidates, k, aff) ==
  IF k > Len(sectors) THEN [c |-> candidates, aff |-> aff]
  ELSE LET sec == sectors[k]
           cells == {sec.idx[j] : j \in 1 .. Len(sec.idx)}
           Restricted(new) ==
             SimplePartitionsFrom(sectors, new, k + 1,
               aff + Cardinality({j \in 1 .. Len(sec.idx) :
                                    new[sec.idx[j]] # candidates[sec.idx[j]]}))
           Only(m) ==
             Restricted(Strict([i \in DOMAIN candidates |->
                                  IF i \in cells THEN SelectSeq(candidates[i], LAMBDA d : d \in m)
                                  ELSE candidates[i]]))
           Partitions(ps) ==
             IF Len(ps) = 1 THEN Only(Range(ps[1]))
             ELSE SimplePartitionsFrom(sectors, candidates, k + 1, aff)
       IN Partitions(get_partitions(sec.clue, Len(sec.idx)))

apply_simple_partitions(sectors, candidates, log, silent) ==
  LET Restricted(s) ==
        Step(s.c, IF s.aff > 0 THEN Logged(log, silent, "simple_partition", s.aff) ELSE log,
             s.aff > 0)
  IN Restricted(SimplePartitionsFrom(sectors, candidates, 1, 0))

\* The loop of find_hidden_singles over the digits from v on, in sector sec.
RECURSIVE HiddenDigitsFrom(_, _, _, _)
HiddenDigitsFrom(sec, candidates, v, affected) ==
  IF v > 9 THEN [c |-> candidates, affected |-> affected]
  ELSE LET holders == {j \in 1 .. Len(sec.idx) : v \in Range(candidates[sec.idx[j]])}
           target == sec.idx[CHOOSE j \in holders : TRUE]
       IN IF Cardinality(holders) = 1 /\ Len(candidates[target]) > 1
          THEN HiddenDigitsFrom(sec, [candidates EXCEPT ![target] = <<v>>], v + 1, affected + 1)
          ELSE HiddenDigitsFrom(sec, candidates, v + 1, affected)

\* The loop of find_hidden_singles over all_sectors from the k-th on.
RECURSIVE HiddenSinglesFrom(_, _, _, _)
HiddenSinglesFrom(sectors, candidates, k, affected) ==
  IF k > Len(sectors) THEN [c |-> candidates, affected |-> affected]
  ELSE LET Found(h) ==
             IF h.c = h.c THEN HiddenSinglesFrom(sectors, h.c, k + 1, h.affected) ELSE h
       IN Found(HiddenDigitsFrom(sectors[k], candidates, 1, affected))

find_hidden_singles(sectors, candidates, log, silent) ==
  LET Found(h) ==
        Step(h.c, IF h.affected > 0 THEN Logged(log, silent, "hidden_singles", h.affected)
                  ELSE log,
             h.affected > 0)
  IN Found(HiddenSinglesFrom(sectors, candidates, 1, 0))

analyze_complex_intersections(sectors, candidates, log, silent) ==
  LET InSome(v, ps) == \E n \in 1 .. Len(ps) : v \in Range(ps[n])
      ok(i, v) ==
        \A k \in 1 .. Len(sectors) :
          (\E j \in 1 .. Len(sectors[k].idx) : sectors[k].idx[j] = i)
            => InSome(v, get_partitions(sectors[k].clue, Len(sectors[k].idx)))
      Kept(cs, valid) == IF valid # <<>> /\ valid # cs THEN valid ELSE cs
      Narrowed(new) ==
        Step(new, IF new # candidates THEN Logged(log, silent, "complex_intersection", 1) ELSE log,
             new # candidates)
  IN Narrowed(Strict([i \in DOMAIN candidates |->
                        IF Len(candidates[i]) <= 1 THEN candidates[i]
                        ELSE Kept(candidates[i],
                                  SelectSeq(candidates[i], LAMBDA v : ok(i, v)))]))

\* apply_logic_pass with apply_simple_partitions as the first technique of
\* the ladder.
apply_logic_pass_partitions_first(sectors, L, silent, iteration) ==
  LET Left(c, log, logged) == [L EXCEPT !.c = c, !.log = log, !.logged_singles = logged]
      Ret(c, log, logged, ret) == [l |-> Left(c, log, logged), ret |-> ret]
      AfterX(n, h, x) ==
        IF iteration > 2 /\ x.ret THEN Ret(x.c, x.log, n.logged_singles, TRUE)
        ELSE Ret(h.c, h.log, n.logged_singles, FALSE)
      AfterH(n, h) ==
        IF h.ret THEN Ret(h.c, h.log, n.logged_singles, TRUE)
        ELSE AfterX(n, h, analyze_complex_intersections(sectors, h.c, h.log, silent))
      AfterP(n, p) ==
        IF p.ret THEN Ret(p.c, p.log, n.logged_singles, TRUE)
        ELSE AfterH(n, find_hidden_singles(sectors, p.c, p.log, silent))
      AfterN(u, n) ==
        IF n.ret THEN Ret(u.c, n.log, n.logged_singles, TRUE)
        ELSE AfterP(n, apply_constraint_propagation(sectors, u.c, L.E.aborted, n.log, silent))
      AfterU(u) ==
        IF u.ret THEN Ret(u.c, u.log, L.logged_singles, TRUE)
        ELSE AfterN(u, find_naked_singles(u.c, L.logged_singles, u.log, silent, iteration))
      AfterS(s) ==
        IF s.ret THEN Ret(s.c, s.log, L.logged_singles, TRUE)
        ELSE AfterU(find_unique_intersections(sectors, s.c, s.log, silent))
  IN AfterS(apply_simple_partitions(sectors, L.c, L.log, silent))

\* The estimator's ladder state L: the candidates c, solve_log, the set
\* logged_singles and the search state E.  apply_logic_pass answers with the
\* state it leaves and what it returned.
apply_logic_pass(sectors, L, silent, iteration) ==
  LET Left(c, log, logged) == [L EXCEPT !.c = c, !.log = log, !.logged_singles = logged]
      Ret(c, log, logged, ret) == [l |-> Left(c, log, logged), ret |-> ret]
      AfterX(n, h, x) ==
        IF iteration > 2 /\ x.ret THEN Ret(x.c, x.log, n.logged_singles, TRUE)
        ELSE Ret(h.c, h.log, n.logged_singles, FALSE)
      AfterH(n, h) ==
        IF h.ret THEN Ret(h.c, h.log, n.logged_singles, TRUE)
        ELSE AfterX(n, h, analyze_complex_intersections(sectors, h.c, h.log, silent))
      AfterS(n, s) ==
        IF s.ret THEN Ret(s.c, s.log, n.logged_singles, TRUE)
        ELSE AfterH(n, find_hidden_singles(sectors, s.c, s.log, silent))
      AfterP(n, p) ==
        IF p.ret THEN Ret(p.c, p.log, n.logged_singles, TRUE)
        ELSE AfterS(n, apply_simple_partitions(sectors, p.c, p.log, silent))
      AfterN(u, n) ==
        IF n.ret THEN Ret(u.c, n.log, n.logged_singles, TRUE)
        ELSE AfterP(n, apply_constraint_propagation(sectors, u.c, L.E.aborted, n.log, silent))
      AfterU(u) ==
        IF u.ret THEN Ret(u.c, u.log, L.logged_singles, TRUE)
        ELSE AfterN(u, find_naked_singles(u.c, L.logged_singles, u.log, silent, iteration))
  IN AfterU(find_unique_intersections(sectors, L.c, L.log, silent))

\* The while loop of run_solve_loop after `iterations` passes; done tells
\* that the loop ended by its condition, not by the limit.
RECURSIVE SolveLoop(_, _, _, _, _, _)
SolveLoop(sectors, L, silent, est_expired, changed, iterations) ==
  IF ~(changed /\ iterations < 100) THEN [l |-> L, done |-> TRUE]
  ELSE LET Passed(a) == SolveLoop(sectors, a.l, silent, est_expired, a.ret, iterations + 1)
           Counted(x) ==
             IF x.x THEN [l |-> [L EXCEPT !.E = x.e], done |-> FALSE]
             ELSE Passed(apply_logic_pass(sectors, [L EXCEPT !.E = x.e], silent,
                                          iterations + 1))
       IN Counted(is_limit_exceeded(L.E, est_expired))

Solved(candidates) == \A i \in DOMAIN candidates : Len(candidates[i]) <= 1

\* run_solve_loop(test, true) of try_bifurcation: the ladder without the
\* log and without a further bifurcation.
run_solve_loop_silent(sectors, L, est_expired) ==
  SolveLoop(sectors, L, TRUE, est_expired, TRUE, 0).l

\* The loop of try_bifurcation over the candidates of target from the k-th on.
RECURSIVE BifurcationVals(_, _, _, _, _)
BifurcationVals(sectors, L, est_expired, target, k) ==
  IF k > Len(L.c[target]) THEN L
  ELSE LET Tested(test) ==
             IF \A i \in DOMAIN test.c : Len(test.c[i]) = 1 THEN test
             ELSE BifurcationVals(sectors, [L EXCEPT !.E = test.E], est_expired, target, k + 1)
           Counted(x) ==
             IF x.x THEN [L EXCEPT !.E = x.e]
             ELSE Tested(run_solve_loop_silent(sectors,
                           [L EXCEPT !.E = x.e, !.c[target] = <<L.c[target][k]>>],
                           est_expired))
       IN Counted(is_limit_exceeded(L.E, est_expired))

try_bifurcation(sectors, L, est_expired) ==
  LET Chosen(x, target) ==
        IF target = 0 THEN [L EXCEPT !.E = x.e]
        ELSE BifurcationVals(sectors, [L EXCEPT !.E = x.e], est_expired, target, 1)
      Counted(x) == IF x.x THEN [L EXCEPT !.E = x.e] ELSE Chosen(x, MrvCell(L.c))
  IN Counted(is_limit_exceeded(L.E, est_expired))

\* run_solve_loop(logic_state, false).
run_solve_loop(sectors, L, est_expired) ==
  LET Counted(l, x) ==
        IF x.x THEN [l EXCEPT !.E = x.e]
        ELSE try_bifurcation(sectors,
                             [l EXCEPT !.E = x.e,
                                       !.log = Append(@, [technique |-> "trial_and_error",
                                                          cells_affected |-> 0])],
                             est_expired)
      Looped(w) ==
        IF ~w.done THEN w.l
        ELSE IF Solved(w.l.c) THEN w.l
        ELSE Counted(w.l, is_limit_exceeded(w.l.E, est_expired))
  IN Looped(SolveLoop(sectors, L, FALSE, est_expired, TRUE, 0))

\* The tier of a step of solve_log.
TechniqueTier(technique) ==
  IF technique \in {"unique_intersection", "elimination_singles"} THEN 1
  ELSE IF technique = "simple_partition" THEN 2
  ELSE IF technique \in {"hidden_singles", "constraint_propagation"} THEN 3
  ELSE IF technique = "complex_intersection" THEN 4
  ELSE 5

\* search_start taken from logic_state, the candidates the ladder left.
logic_state(b, L) == L.c

\* search_start of estimate_difficulty_detailed: ALL_CANDIDATES for every
\* white cell, whatever the ladder state L holds.
search_start(b, L) == Strict([i \in 1 .. Len(b.white_cells) |-> ALL_CANDIDATES])

\* estimate_difficulty_detailed() on board b: the fields of its
\* DifficultyResult, with search_aborted and nodes_explored as it ends.
estimate_difficulty_detailed(b, est_expired) ==
  LET full == Strict([i \in 1 .. Len(b.white_cells) |-> ALL_CANDIDATES])
      E0 == [found |-> <<>>, nodes |-> 0, aborted |-> FALSE]
      Highest(tiers) == CHOOSE t \in tiers : \A u \in tiers : u <= t
      Result(L, E) ==
        [solve_path |-> L.log,
         max_tier |-> Highest({1} \cup {TechniqueTier(L.log[i].technique) :
                                          i \in 1 .. Len(L.log)}),
         solution_count |-> Len(E.found),
         solutions |-> E.found,
         uniqueness |-> IF E.aborted THEN "Inconclusive (Timeout)"
                        ELSE IF Len(E.found) = 1 THEN "Unique"
                        ELSE IF Len(E.found) > 1 THEN "Multiple" ELSE "No Solution",
         search_aborted |-> E.aborted,
         nodes_explored |-> E.nodes]
      Searched(sectors, L) ==
        Result(L, discover_solutions(sectors, search_start(b, L), 3, L.E, est_expired))
      Ladder(sectors) ==
        IF b.white_cells = <<>> \/ sectors = <<>>
        THEN [solve_path |-> <<>>, max_tier |-> 1, solution_count |-> 0, solutions |-> <<>>,
              uniqueness |-> "", search_aborted |-> FALSE, nodes_explored |-> 0]
        ELSE Searched(sectors,
                      run_solve_loop(sectors, [c |-> full, log |-> <<>>,
                                               logged_singles |-> {}, E |-> E0],
                                     est_expired))
  IN Ladder(all_sectors(b))

(***************************************************************************)
(* CSPSolver: topology repair and the learned constraint.                  *)
(***************************************************************************)
\* The white cells on which the committed values and alt_sol differ, in
\* white_cells order.
DiffCells(b, alt_sol) ==
  SelectSeq(b.white_cells, LAMBDA p : /\ b.value[p[1]][p[2]] > 0
                                      /\ alt_sol[p[1]][p[2]] > 0
                                      /\ alt_sol[p[1]][p[2]] # b.value[p[1]][p[2]])

\* std::shuffle(diffs, rng): the order is fixed by the next element of the
\* solver's random stream, here as a rotation of the list.
ShuffleDiffs(diffs, seed, draws) ==
  LET n == Len(diffs)
      k == ValueOrder(seed, draws)[1] % n
  IN [i \in 1 .. n |-> diffs[((i - 1 + k) % n) + 1]]

\* The body of the candidate loop of repair_topology_robust for one target
\* on board b: each outcome is the board it leaves and whether it returned.
RepairCandidate(b, types, target) ==
  LET Judged(s, b3) ==
        IF s.b.type = types THEN [b |-> s.b, ok |-> FALSE]
        ELSE IF ~validate_topology_structure(b3) THEN [b |-> b3, ok |-> FALSE]
        ELSE IF Len(b3.white_cells) <= 12 THEN [b |-> b3, ok |-> FALSE]
        ELSE [b |-> b3, ok |-> TRUE]
  IN UNION {IF ~t.ok THEN {[b |-> t.b, ok |-> FALSE]}
            ELSE {Judged(s, identify_sectors(s.b)) : s \in stabilize_grid(t.b, FALSE)}
            : t \in try_remove_and_reconnect([b EXCEPT !.type = types], target[1], target[2])}

\* The candidate loop from the i-th candidate on, run on the set S of boards
\* the candidates before it can have left.
RECURSIVE RepairLoop(_, _, _, _, _)
RepairLoop(S, done, types, diffs, i) ==
  IF S = {} THEN done
  ELSE IF i > Min(15, Len(diffs)) THEN done \cup {[b |-> b, ok |-> FALSE] : b \in S}
  ELSE LET Tried(xs) ==
             RepairLoop({x.b : x \in {y \in xs : ~y.ok}},
                        done \cup {y \in xs : y.ok}, types, diffs, i + 1)
       IN Tried(UNION {RepairCandidate(b, types, diffs[i]) : b \in S})

repair_topology_robust(b, alt_sol, seed, draws) ==
  LET Shuffled(diffs) ==
        IF diffs = <<>> THEN {[b |-> b, ok |-> FALSE, k |-> draws]}
        ELSE {[b |-> x.b, ok |-> x.ok, k |-> draws + 1]
              : x \in RepairLoop({b}, {}, b.type, ShuffleDiffs(diffs, seed, draws), 1)}
  IN Shuffled(DiffCells(b, alt_sol))

\* The cells the learned constraint can name: diff_cells[0] after the sort by
\* count_white_neighbors, descending; the sort leaves the order of cells of
\* equal count open.
LearnTargets(b, alt_sol) ==
  LET diff_cells == Range(DiffCells(b, alt_sol))
  IN {p \in diff_cells :
        \A q \in diff_cells : count_white_neighbors(b, q) <= count_white_neighbors(b, p)}

\* The node budget perform_robust_uniqueness_check hands to check_uniqueness
\* (150000 in the source), scaled to the boards here so that a search can
\* exceed it.
RobustMaxNodes == 45

\* A pass that answers UNIQUE when check_timeout answers true.
perform_robust_pass_unchecked(b, i, expired, mid) ==
  IF expired
  THEN [result |-> UNIQUE, alt |-> <<>>, n |-> 0, timed_out |-> FALSE, b |-> b]
  ELSE CHOOSE r \in {check_uniqueness(b, RobustMaxNodes, 42 + (i * 100), mid)} : TRUE

\* A pass whose check_uniqueness, in the last pass, leaves the white cells
\* without the values it cleared for its search.
perform_robust_pass_unrestored(b, i, expired, mid) ==
  IF expired
  THEN [result |-> INCONCLUSIVE, alt |-> <<>>, n |-> 0, timed_out |-> FALSE, b |-> b]
  ELSE CHOOSE r \in {IF i = 2 THEN [u EXCEPT !.b.value = NoAssign] ELSE u
                     : u \in {check_uniqueness(b, RobustMaxNodes, 42 + (i * 100), mid)}} : TRUE

\* One pass of perform_robust_uniqueness_check: check_timeout, then
\* check_uniqueness with the seed of pass i; b is the board it leaves.
perform_robust_pass(b, i, expired, mid) ==
  IF expired
  THEN [result |-> INCONCLUSIVE, alt |-> <<>>, n |-> 0, timed_out |-> FALSE, b |-> b]
  ELSE CHOOSE r \in {check_uniqueness(b, RobustMaxNodes, 42 + (i * 100), mid)} : TRUE

(***************************************************************************)
(* SpecOps: a KakuroBoard driven through its public operations in any      *)
(* order, with coordinates inside the grid, on its border and outside it.  *)
(* st.op names the last operation, st.n counts the operations, st.ok is    *)
(* its return value; st.sym tells whether the grid was symmetric before    *)
(* the last operation and st.whites how many WHITE cells it had; st.draw   *)
(* is the last rectangle generate_stamps drew and st.stamped whether it    *)
(* stamped it.                                                             *)
(***************************************************************************)
\* The grid is symmetric under the half turn about its centre.
Symmetric(b) == \A p \in Pos : TypeAt(b, p) = TypeAt(b, Sym(p))

MaxOps == 2

\* The coordinates handed to the single-cell operations: outside the grid,
\* on each border, in a corner, and in the interior.
OpCells ==
  {<<0 - 1, 2>>, <<height, width>>, <<1, width>>,
   <<0, 0>>, <<0, width \div 2>>, <<height \div 2, 0>>, <<height - 1, width - 1>>,
   <<2, width - 1>>, <<1, 2>>, <<height \div 2, 2>>, <<height \div 2, width \div 2>>}
\* The densities handed to grow_lattice, in percent; a call is made when the
\* lattice is at most GrowSlack cells short of its target.
OpDensities == {20, 25, 30}
GrowSlack == 3

OpStamps == {<<2, 2>>, <<1, 3>>}
\* The outcomes of the seeding step of generate_topology for the parameters
\* tried here; the step clears the grid first, so they do not depend on the
\* board it starts from.
OpSeeds ==
  UNION {seed_topology(island_mode, OpStamps, 2, 25, max_sector_length)
         : island_mode \in BOOLEAN, max_sector_length \in {2, 3}}

OpShapes == {<<2, 2>>, <<1, 4>>}

\* No draw of generate_stamps was made by the last operation.
NoDraw == [top_r |-> 0, left_c |-> 0, h |-> 0, w |-> 0]

InitOps ==
  /\ board = NewBoard
  /\ pc = "ops"
  /\ st = [op |-> "KakuroBoard", n |-> 0, ok |-> TRUE, sym |-> TRUE, whites |-> 0,
           draw |-> NoDraw, stamped |-> FALSE]

CanOp == pc = "ops" /\ st.n < MaxOps

Did(op, b, ok) ==
  /\ board' = b
  /\ pc' = pc
  /\ st' = [op |-> op, n |-> st.n + 1, ok |-> ok,
            sym |-> Symmetric(board), whites |-> Cardinality(Whites(board)),
            draw |-> NoDraw, stamped |-> FALSE]

\* generate_stamps(shapes, 1) ended with draw d: it stamped the rectangle of
\* d, or d was the last of its 20 failed draws.
DidStamp(b, d, stamped) ==
  /\ board' = b
  /\ pc' = pc
  /\ st' = [op |-> "generate_stamps", n |-> st.n + 1, ok |-> Whites(b) # {},
            sym |-> Symmetric(board), whites |-> Cardinality(Whites(board)),
            draw |-> [top_r |-> d[1].anchor[1] - d[2][1],
                      left_c |-> d[1].anchor[2] - d[2][2],
                      h |-> d[1].shape[1], w |-> d[1].shape[2]],
            stamped |-> stamped]

OpsSetWhite ==
  /\ CanOp
  /\ \E p \in OpCells : Did("set_white", set_white(board, p[1], p[2]), TRUE)

OpsSetBlock ==
  /\ CanOp
  /\ \E p \in OpCells : Did("set_block", set_block(board, p[1], p[2]), TRUE)

OpsBlockSym ==
  /\ CanOp
  /\ \E p \in OpCells \cap Pos : Did("block_sym", block_sym(board, p), TRUE)

OpsStampRect ==
  /\ CanOp
  /\ \E p \in OpCells, s \in OpShapes :
       Did("stamp_rect", stamp_rect(board, p[1], p[2], s[1], s[2]), TRUE)

OpsPlaceRandomSeed ==
  /\ CanOp
  /\ \E x \in place_random_seed(board) : Did("place_random_seed", x.b, x.ok)

OpsGrowLattice ==
  /\ CanOp
  /\ \E density \in OpDensities, max_sector_length \in {2, 3} :
       /\ target_white(density) <= Len(board.white_cells) + GrowSlack
       /\ \E b \in grow_lattice(board, density, max_sector_length) :
            Did("grow_lattice", b, TRUE)

OpsGenerateStamps ==
  /\ CanOp
  /\ \E b \in {collect_white_cells(board)} :
       IF b.white_cells = <<>> THEN Did("generate_stamps", b, FALSE)
       ELSE \E d \in StampDraws(b, OpStamps) :
              IF StampFits(d)
              THEN DidStamp(collect_white_cells(
                              stamp_rect(b, d[1].anchor[1] - d[2][1], d[1].anchor[2] - d[2][2],
                                         d[1].shape[1], d[1].shape[2])), d, TRUE)
              ELSE DidStamp(b, d, FALSE)

OpsSeedTopology ==
  /\ CanOp
  /\ \E x \in OpSeeds : Did("seed_topology", x.b, x.ok)

OpsSliceLongRuns ==
  /\ CanOp
  /\ \E max_len \in {2, 9} :
       LET x == slice_long_runs(board, max_len) IN Did("slice_long_runs", x.b, x.changed)

OpsSliceSoftRuns ==
  /\ CanOp
  /\ \E x \in slice_soft_runs(board, 3, 50) : Did("slice_soft_runs", x.b, x.changed)

OpsBreakLargePatches ==
  /\ CanOp
  /\ \E size \in {2, 3} :
       \E x \in break_large_patches(board, size) : Did("break_large_patches", x.b, x.changed)

OpsPruneSingles ==
  /\ CanOp
  /\ \E x \in prune_singles(board) : Did("prune_singles", x.b, x.changed)

OpsTryRemove ==
  /\ CanOp
  /\ \E p \in OpCells :
       \E x \in try_remove_and_reconnect(board, p[1], p[2]) : Did("try_remove_and_reconnect", x.b, x.ok)

OpsBreakSingleRuns ==
  /\ CanOp
  /\ LET x == break_single_runs(board) IN Did("break_single_runs", x.b, x.changed)

OpsFixInvalidRuns ==
  /\ CanOp
  /\ LET x == fix_invalid_runs(board) IN Did("fix_invalid_runs", x.b, x.changed)

OpsFixInvalidRunsGentle ==
  /\ CanOp
  /\ LET x == fix_invalid_runs_gentle(board) IN Did("fix_invalid_runs_gentle", x.b, x.changed)

OpsEnsureConnectivity ==
  /\ CanOp
  /\ LET x == ensure_connectivity(board) IN Did("ensure_connectivity", x.b, x.changed)

OpsCollectWhiteCells ==
  /\ CanOp
  /\ Did("collect_white_cells", collect_white_cells(board), TRUE)

OpsIdentifySectors ==
  /\ CanOp
  /\ Did("identify_sectors", identify_sectors(board), TRUE)

OpsStabilizeGrid ==
  /\ CanOp
  /\ \E gentle \in BOOLEAN :
       \E x \in stabilize_grid(board, gentle) : Did("stabilize_grid", x.b, x.changed)

NextOps ==
  \/ OpsSetWhite
  \/ OpsSetBlock
  \/ OpsBlockSym
  \/ OpsStampRect
  \/ OpsPlaceRandomSeed
  \/ OpsGrowLattice
  \/ OpsGenerateStamps
  \/ OpsSeedTopology
  \/ OpsSliceLongRuns
  \/ OpsSliceSoftRuns
  \/ OpsBreakLargePatches
  \/ OpsPruneSingles
  \/ OpsTryRemove
  \/ OpsBreakSingleRuns
  \/ OpsFixInvalidRuns
  \/ OpsFixInvalidRunsGentle
  \/ OpsEnsureConnectivity
  \/ OpsStabilizeGrid
  \/ OpsCollectWhiteCells
  \/ OpsIdentifySectors

SpecOps == InitOps /\ [][NextOps]_vars

(***************************************************************************)
(* SpecSect: the operations that change cell types or rebuild the cell     *)
(* list and the sectors, on a board whose seed was placed and whose        *)
(* sectors were built.                                                     *)
(***************************************************************************)
SectBoards == {identify_sectors(collect_white_cells(x.b)) : x \in place_random_seed(NewBoard)}

InitSect ==
  /\ board \in SectBoards
  /\ pc = "ops"
  /\ st = [op |-> "identify_sectors", n |-> 0, ok |-> TRUE, sym |-> Symmetric(board),
           whites |-> Cardinality(Whites(board)), draw |-> NoDraw, stamped |-> FALSE]

NextSect ==
  \/ OpsSetWhite
  \/ OpsSetBlock
  \/ OpsBlockSym
  \/ OpsPruneSingles
  \/ OpsTryRemove
  \/ OpsBreakSingleRuns
  \/ OpsStabilizeGrid
  \/ OpsCollectWhiteCells
  \/ OpsIdentifySectors

SpecSect == InitSect /\ [][NextSect]_vars

(***************************************************************************)
(* Spec: CSPSolver::generate_puzzle, a step at a time.  pc is the place    *)
(* the call has reached; st holds the solver's locals: topo_attempt,       *)
(* fill_attempt, fills_for_this_topology, the cumulative constraints       *)
(* (forbidden), the pass i and the result of the robust uniqueness check,  *)
(* the random stream (rng), whether the time limit has passed (expired),   *)
(* the number of repairs of the present topology and ret, the value        *)
(* returned.  The random stream repeats after Len(ValueOrders) draws, so   *)
(* its state is the position in that cycle.  The fill parameters are those *)
(* of an empty partition_preference and the default max_nodes.             *)
(***************************************************************************)
MAX_TOPOLOGY_RETRIES == 1
MAX_FILL_ATTEMPTS == 2
MAX_REPAIR_ATTEMPTS == 5
FillMaxNodes == 30000

\* params.max_nodes of the call: absent, which gives the default, or a budget
\* that the fill of some of the topologies here exceeds.
FillBudgets == {FillMaxNodes, 15}

Advance(rng, draws) == (rng + draws) % Len(ValueOrders)

\* The outcome of a search that checks the time every 1000 nodes, when the
\* limit passes while it runs (mid): a search that ends before its first time
\* check is the same search whether or not the limit has passed.
TimedSearch(in_time, late, mid) == IF mid /\ in_time.n >= 999 THEN late ELSE in_time

\* nodes_explored as the logic passes can leave it: far from a time check,
\* three short of it, or one short of it.
EstimatorNodes == {1, 497, 499}

TopoParams ==
  [stamps |-> {<<2, 2>>}, num_stamps |-> 2, min_cells |-> 16, max_run_len |-> 9,
   max_run_len_soft |-> 0, max_run_len_soft_prob |-> 0, max_patch_size |-> 3,
   island_mode |-> TRUE, density |-> 60, max_sector_length |-> 9]

Topologies == generate_topology(TopoParams)

Init ==
  /\ board = NewBoard
  /\ pc = "generate_puzzle"
  /\ \E rng \in 0 .. Len(ValueOrders) - 1, max_nodes \in FillBudgets :
       st = [rng |-> rng, max_nodes |-> max_nodes, topo_attempt |-> 0, fill_attempt |-> 0,
             fills |-> 0, forbidden |-> <<>>, i |-> 0, result |-> "", alt |-> <<>>,
             expired |-> FALSE, timeout |-> FALSE, repairs |-> 0,
             fill |-> "", last |-> "", count |-> 0, aborted |-> FALSE, ret |-> "running"]

\* The time limit passes while the call runs.
TimePasses ==
  /\ pc \notin {"returned"}
  /\ ~st.expired
  /\ st' = [st EXCEPT !.expired = TRUE]
  /\ UNCHANGED <<board, pc>>

Return(b, s, value) ==
  /\ board' = b
  /\ pc' = "returned"
  /\ st' = [s EXCEPT !.ret = value, !.i = 0, !.result = "", !.alt = <<>>,
                      !.last = s.result]

\* for (topo_attempt ...) of generate_puzzle up to the call of
\* attempt_fill_and_validate.
PrepareNewTopology ==
  /\ pc = "generate_puzzle"
  /\ IF st.topo_attempt >= MAX_TOPOLOGY_RETRIES
     THEN Return(board, st, FALSE)
     ELSE IF st.expired
     THEN Return(board, [st EXCEPT !.timeout = TRUE], FALSE)
     ELSE \E x \in Topologies :
            IF ~x.ok \/ Len(x.b.white_cells) < 12
            THEN /\ board' = x.b
                 /\ pc' = pc
                 /\ st' = [st EXCEPT !.topo_attempt = st.topo_attempt + 1]
            ELSE /\ board' = identify_sectors(collect_white_cells(x.b))
                 /\ pc' = "fill"
                 /\ st' = [st EXCEPT !.fill_attempt = 0, !.fills = 0,
                                     !.forbidden = <<>>, !.repairs = 0]

\* The locals of attempt_fill_and_validate before its loop, and those of the
\* loop body before an iteration.
NoLocals(s) == [s EXCEPT !.fill_attempt = 0, !.fills = 0, !.forbidden = <<>>,
                         !.i = 0, !.result = "", !.alt = <<>>, !.repairs = 0,
                         !.last = s.result]
NoBodyLocals(s) == [s EXCEPT !.i = 0, !.result = "", !.alt = <<>>, !.last = s.result]

\* attempt_fill_and_validate returns false: generate_puzzle goes on with the
\* next topo_attempt.
GiveUpTopology(b, s) ==
  /\ board' = b
  /\ pc' = "generate_puzzle"
  /\ st' = [NoLocals(s) EXCEPT !.topo_attempt = s.topo_attempt + 1]

\* continue in the loop of attempt_fill_and_validate.
NextFillAttempt(b, s) ==
  /\ board' = b
  /\ pc' = "fill"
  /\ st' = [NoBodyLocals(s) EXCEPT !.fill_attempt = s.fill_attempt + 1]

\* solve_fill as attempt_fill_and_validate calls it on board b with the
\* locals s.
FillOf(b, s, expired) ==
  solve_fill(reset_values(b), 0,
             [max_nodes |-> s.max_nodes, seed |-> s.rng, forbidden |-> s.forbidden,
              ignore_clues |-> TRUE, expired |-> expired])

\* The branch of a failed solve_fill with the topology given up when the
\* list of learned constraints was already empty.
FillFailedAbandons(b, s, forbidden) ==
  IF forbidden # <<>> THEN NextFillAttempt(b, [s EXCEPT !.forbidden = <<>>])
  ELSE GiveUpTopology(b, s)

\* The branch of a failed solve_fill: the learned constraints, if any, are
\* cleared, and the loop continues.
FillFailed(b, s, forbidden) == NextFillAttempt(b, [s EXCEPT !.forbidden = <<>>])

\* One iteration of the fill loop up to perform_robust_uniqueness_check.
\* mid: the time limit passes during the fill.  st.timeout tells whether a
\* check_timeout of this call has answered true.
FillAttempt ==
  /\ pc = "fill"
  /\ IF st.fill_attempt >= MAX_FILL_ATTEMPTS * MAX_REPAIR_ATTEMPTS
     THEN GiveUpTopology(board, st)
     ELSE IF st.expired
     THEN GiveUpTopology(board, [st EXCEPT !.timeout = TRUE])
     ELSE \E in_time \in {FillOf(board, st, FALSE)} : \E mid \in BOOLEAN :
          \E f \in {TimedSearch(in_time, FillOf(board, st, TRUE), mid)} :
          \E c \in {IF f.ok THEN calculate_clues(f.b) ELSE f.b} :
          \E ambiguous \in {f.ok /\ has_high_global_ambiguity(c)} :
          \E s \in {[st EXCEPT !.rng = Advance(st.rng, f.k), !.expired = mid,
                               !.timeout = mid /\ ~f.ok /\ f.n % 1000 = 0,
                               !.fill = IF ~f.ok
                                        THEN (IF st.forbidden # <<>> THEN "cleared"
                                              ELSE "failed")
                                        ELSE IF ambiguous THEN "ambiguous" ELSE "filled"]} :
            IF ~f.ok
            THEN FillFailed(f.b, s, st.forbidden)
            ELSE IF ambiguous
            THEN NextFillAttempt(c, s)
            ELSE /\ board' = c
                 /\ pc' = "robust"
                 /\ st' = [s EXCEPT !.i = 0]

\* One pass of the loop of perform_robust_uniqueness_check.
RobustPass ==
  /\ pc = "robust"
  /\ IF st.i >= 3
     THEN /\ pc' = "verdict"
          /\ st' = [st EXCEPT !.result = UNIQUE, !.alt = <<>>]
          /\ UNCHANGED board
     ELSE \E in_time \in {perform_robust_pass(board, st.i, st.expired, FALSE)} :
          \E mid \in BOOLEAN :
          \E u \in {TimedSearch(in_time, perform_robust_pass(board, st.i, st.expired, TRUE),
                                st.expired \/ mid)} :
          \E s \in {[st EXCEPT !.expired = st.expired \/ mid,
                               !.timeout = \/ st.timeout
                                           \/ st.expired
                                           \/ u.timed_out /\ u.n <= RobustMaxNodes]} :
            /\ board' = u.b
            /\ IF u.result = UNIQUE
               THEN pc' = pc /\ st' = [s EXCEPT !.i = st.i + 1]
               ELSE pc' = "verdict" /\ st' = [s EXCEPT !.result = u.result, !.alt = u.alt]

\* cumulative_constraints after the learning step of the MULTIPLE branch:
\* the constraint (target, {its value on b}) is pushed when diff_cells is not
\* empty.
Learned(b, s, target) ==
  IF target = NoCell THEN s.forbidden
  ELSE Append(s.forbidden, [cell |-> target, values |-> {b.value[target[1]][target[2]]}])

\* The MULTIPLE branch of attempt_fill_and_validate for the locals s, whose
\* result is MULTIPLE.
HandleMultiple(s) ==
  \E targets \in {IF s.alt = <<>> THEN {NoCell}
                  ELSE IF LearnTargets(board, s.alt[1]) = {} THEN {NoCell}
                  ELSE LearnTargets(board, s.alt[1])} :
  \E target \in targets :
  \E s1 \in {[s EXCEPT !.fills = s.fills + 1, !.forbidden = Learned(board, s, target)]} :
    IF s1.fills < MAX_FILL_ATTEMPTS THEN NextFillAttempt(board, s1)
    ELSE \E b1 \in {identify_sectors(collect_white_cells(board))} :
         IF s.alt = <<>> THEN GiveUpTopology(b1, s1)
         ELSE \E x \in repair_topology_robust(b1, s.alt[1], s.rng, 0) :
                IF x.ok
                THEN NextFillAttempt(x.b, [s1 EXCEPT !.fills = 0, !.forbidden = <<>>,
                                                     !.rng = Advance(s.rng, x.k),
                                                     !.repairs = s.repairs + 1])
                ELSE GiveUpTopology(x.b, [s1 EXCEPT !.rng = Advance(s.rng, x.k)])

\* The outcome of the estimator's search, which checks its own time limit
\* every 500 nodes, when that limit passes while it runs.
EstimatorSearch(in_time, late, est_expired, nodes_explored) ==
  IF est_expired /\ in_time.nodes \div 500 > nodes_explored \div 500 THEN late ELSE in_time

\* diff.solution_count == 1 with a search that was not aborted.
CommittedUnlessAborted(diff) == Len(diff.found) = 1 /\ ~diff.aborted

\* The test the fill is committed on: diff.solution_count == 1.
Committed(diff) == Len(diff.found) = 1

\* The test of the branch that counts the fill and learns from the witness
\* with INCONCLUSIVE taken like MULTIPLE.
CountsInconclusive(result) == result \in {MULTIPLE, INCONCLUSIVE}

\* The test of the branch that counts the fill and learns from the witness:
\* result == MULTIPLE.
Counts(result) == result = MULTIPLE

\* The rest of the iteration after UNIQUE: the estimator's confirmation.
\* mid: the time limit passes while the estimator runs.
Confirm ==
  /\ pc = "verdict"
  /\ st.result = UNIQUE
  /\ \E nodes_explored \in EstimatorNodes :
     \E in_time \in {estimate(board, nodes_explored, FALSE)} :
     \E est_expired \in BOOLEAN, mid \in BOOLEAN :
     \E diff \in {EstimatorSearch(in_time, estimate(board, nodes_explored, TRUE),
                                  est_expired, nodes_explored)} :
     \E s \in {[st EXCEPT !.result = MULTIPLE, !.expired = st.expired \/ mid,
                          !.aborted = diff.aborted, !.count = Len(diff.found)]} :
       IF Committed(diff) THEN Return(board, s, TRUE)
       ELSE IF s.expired THEN GiveUpTopology(board, [s EXCEPT !.timeout = TRUE])
       ELSE HandleMultiple(s)

\* The rest of the iteration after MULTIPLE or INCONCLUSIVE.
Verdict ==
  /\ pc = "verdict"
  /\ st.result # UNIQUE
  /\ IF st.expired THEN GiveUpTopology(board, [st EXCEPT !.timeout = TRUE])
     ELSE IF Counts(st.result) THEN HandleMultiple(st)
     ELSE NextFillAttempt(board, st)

Next ==
  \/ TimePasses
  \/ PrepareNewTopology
  \/ FillAttempt
  \/ RobustPass
  \/ Confirm
  \/ Verdict

Spec == Init /\ [][Next]_vars

(***************************************************************************)
(* SpecTopo: one call of generate_topology on a new board, with the        *)
(* parameters of the pipeline and min_cells below, at and above the sizes  *)
(* the stamps give.  st.P holds the parameters and st.ok the value the     *)
(* call returned.                                                          *)
(***************************************************************************)
TopoInputs == {[TopoParams EXCEPT !.min_cells = m] : m \in {0, 12, 16, 20}}

InitTopo ==
  /\ board = NewBoard
  /\ pc = "topology"
  /\ \E P \in TopoInputs : st = [P |-> P, ok |-> FALSE]

GenerateTopology ==
  /\ pc = "topology"
  /\ \E x \in generate_topology(st.P) :
       /\ board' = x.b
       /\ pc' = "generated"
       /\ st' = [st EXCEPT !.ok = x.ok]

NextTopo == GenerateTopology

SpecTopo == InitTopo /\ [][NextTopo]_vars

(***************************************************************************)
(* SpecUniq: the uniqueness checks called on filled boards with clues.     *)
(* The boards are every fill of a 2 x 2 block with the digits of           *)
(* UniqDigits that repeats no digit in a sector, the fills solve_fill      *)
(* makes of two overlapping 2 x 2 blocks, and a fill of a 2 x 8 block      *)
(* whose search runs past its first time check.  st.before is the board at *)
(* the call; st.op, st.result, st.alt, st.n and st.timed_out are the       *)
(* operation, what it returned and where its search stood; st.passes lists *)
(* the verdicts of the passes of the robust check.                         *)
(***************************************************************************)
UniqDigits == 1 .. 4

BlockShape == {<<1, 1>>, <<1, 2>>, <<2, 1>>, <<2, 2>>}
StairShape == BlockShape \cup {<<2, 3>>, <<3, 2>>, <<3, 3>>}
LongShape == {<<1 + i, 1 + j>> : i \in 0 .. 1, j \in 0 .. 7}
LongValues == <<4, 8, 2, 6, 3, 7, 1, 9, 2, 4, 7, 8, 6, 1, 9, 3>>

\* The board with the cells of shape WHITE and its sectors identified.
ShapeBoard(shape) == identify_sectors(collect_white_cells(SetWhiteAll(NewBoard, shape)))

\* The board with values[i] in its i-th white cell, and the clues of that fill.
FilledBoard(b, values) ==
  calculate_clues([b EXCEPT !.value = [r \in Rows |-> [c \in Cols |->
                     IF \E i \in 1 .. Len(b.white_cells) : b.white_cells[i] = <<r, c>>
                     THEN values[CHOOSE i \in 1 .. Len(b.white_cells) :
                                   b.white_cells[i] = <<r, c>>]
                     ELSE 0]]])

\* No sector of b repeats a digit under values.
DistinctInSectors(b, values) ==
  \A i, j \in 1 .. Len(b.white_cells) :
    LET p == b.white_cells[i]
        q == b.white_cells[j]
    IN (i # j /\ (p[1] = q[1] \/ p[2] = q[2]) /\ values[i] = values[j])
         => /\ (p[1] = q[1] => b.sector_h[p[1]][p[2]] # b.sector_h[q[1]][q[2]])
            /\ (p[2] = q[2] => b.sector_v[p[1]][p[2]] # b.sector_v[q[1]][q[2]])

UniqFill(seed) ==
  [max_nodes |-> 30000, seed |-> seed, forbidden |-> <<>>, ignore_clues |-> TRUE,
   expired |-> FALSE]

UniqBoards ==
  {FilledBoard(ShapeBoard(BlockShape), values) :
     values \in {v \in [1 .. 4 -> UniqDigits] : DistinctInSectors(ShapeBoard(BlockShape), v)}}
  \cup {calculate_clues(solve_fill(ShapeBoard(StairShape), 0, UniqFill(seed)).b) :
          seed \in 0 .. Len(ValueOrders) - 1}
  \cup {FilledBoard(ShapeBoard(LongShape), LongValues)}

\* The node budgets and seeds handed to check_uniqueness: a budget the
\* search exceeds, and the ones perform_robust_uniqueness_check hands over.
UniqBudgets == {2, 150000}
UniqSeeds == {42, 142}

\* perform_robust_uniqueness_check from pass i on.  T is the first pass at
\* whose start check_timeout answers true (3: none does); with mid the limit
\* passes during the search of pass T - 1.
RECURSIVE RobustPasses(_, _, _, _, _)
RobustPasses(b, i, T, mid, passes) ==
  IF i >= 3 THEN [result |-> UNIQUE, alt |-> <<>>, passes |-> passes, b |-> b]
  ELSE IF i >= T THEN [result |-> INCONCLUSIVE, alt |-> <<>>, passes |-> passes, b |-> b]
  ELSE LET u == check_uniqueness(b, 150000, 42 + (i * 100), mid /\ i + 1 = T)
           seen == Append(passes, u.result)
       IN IF u.result = MULTIPLE
          THEN [result |-> MULTIPLE, alt |-> u.alt, passes |-> seen, b |-> u.b]
          ELSE IF u.result = INCONCLUSIVE
          THEN [result |-> INCONCLUSIVE, alt |-> <<>>, passes |-> seen, b |-> u.b]
          ELSE RobustPasses(u.b, i + 1, T, mid, seen)

\* perform_robust_uniqueness_check believing its first pass: it returns
\* after one check_uniqueness, and UNIQUE when the time ran out before it.
perform_single_pass(b, T, mid) ==
  IF 0 >= T THEN [result |-> UNIQUE, alt |-> <<>>, passes |-> <<>>, b |-> b]
  ELSE LET u == check_uniqueness(b, 150000, 42, mid /\ 1 = T)
       IN [result |-> u.result, alt |-> u.alt, passes |-> <<u.result>>, b |-> u.b]

perform_robust_uniqueness_check(b, T, mid) == RobustPasses(b, 0, T, mid, <<>>)

InitUniq ==
  /\ board \in UniqBoards
  /\ pc = "filled"
  /\ st = [op |-> "fill", before |-> board, result |-> "", alt |-> <<>>, n |-> 0,
           timed_out |-> FALSE, max_nodes |-> 0, passes |-> <<>>, T |-> 3]

UniqCheck ==
  /\ pc = "filled"
  /\ \E max_nodes \in UniqBudgets, seed_offset \in UniqSeeds, expired \in BOOLEAN :
       \E u \in {check_uniqueness(board, max_nodes, seed_offset, expired)} :
          /\ board' = u.b
          /\ pc' = "checked"
          /\ st' = [op |-> "check_uniqueness", before |-> board, result |-> u.result,
                    alt |-> u.alt, n |-> u.n, timed_out |-> u.timed_out,
                    max_nodes |-> max_nodes, passes |-> <<>>, T |-> 3]

UniqRobust ==
  /\ pc = "filled"
  /\ \E T \in 0 .. 3, mid \in BOOLEAN :
       \E u \in {perform_robust_uniqueness_check(board, T, mid)} :
          /\ board' = u.b
          /\ pc' = "checked"
          /\ st' = [op |-> "perform_robust_uniqueness_check", before |-> board,
                    result |-> u.result, alt |-> u.alt, n |-> 0, timed_out |-> FALSE,
                    max_nodes |-> 150000, passes |-> u.passes, T |-> T]

NextUniq ==
  \/ UniqCheck
  \/ UniqRobust



SpecUniq == InitUniq /\ [][NextUniq]_vars

(***************************************************************************)
(* HybridUniquenessChecker.  As in the estimator a CandidateMap gives each *)
(* white cell, by its place in white_cells, its candidate digits in        *)
(* ascending order; value gives each white cell's value the same way, 0    *)
(* for none.  A sector is its cells' places (idx), its clue (NoClue for    *)
(* none) and its direction.                                                *)
(***************************************************************************)
\* sectors_h followed by sectors_v, each with the clue its first cell's
\* neighbour holds.
hybrid_sectors(b) ==
  LET Info(s, is_h) ==
        LET r == IF is_h THEN s[1][1] ELSE s[1][1] - 1
            c == IF is_h THEN s[1][2] - 1 ELSE s[1][2]
        IN [is_h |-> is_h,
            idx |-> Strict([k \in 1 .. Len(s) |-> CellIndex(b, s[k])]),
            clue |-> IF s = <<>> \/ ~InGrid(r, c) THEN NoClue
                     ELSE IF is_h THEN b.clue_h[r][c] ELSE b.clue_v[r][c]]
      hs == [i \in 1 .. Len(b.sectors_h) |-> Info(b.sectors_h[i], TRUE)]
      vs == [i \in 1 .. Len(b.sectors_v) |-> Info(b.sectors_v[i], FALSE)]
  IN SelectSeq(hs \o vs, LAMBDA s : s.idx # <<>>)

\* cell->sector_h (is_h) or cell->sector_v of the cell at place i, as the
\* one-element or empty sequence of sectors.
SectorOfCell(sectors, i, is_h) ==
  SelectSeq(sectors, LAMBDA s : s.is_h = is_h /\ \E k \in 1 .. Len(s.idx) : s.idx[k] = i)

\* can_match_values_to_cells: used holds the places in the sector that are
\* taken.
RECURSIVE can_match_values_to_cells(_, _, _, _, _)
can_match_values_to_cells(values, sector, candidates, value, used) ==
  IF values = <<>> THEN TRUE
  ELSE \E i \in 1 .. Len(sector) :
         /\ i \notin used
         /\ ~(value[sector[i]] # 0 /\ value[sector[i]] # values[1])
         /\ values[1] \in Range(candidates[sector[i]])
         /\ can_match_values_to_cells(Tail(values), sector, candidates, value, used \cup {i})

can_assign_partition_to_sector(partition, sector, candidates, value, fixed_cell_idx, fixed_val) ==
  /\ fixed_val \in Range(partition)
  /\ can_match_values_to_cells(SelectSeq(partition, LAMBDA d : d # fixed_val), sector,
                               candidates, value, {fixed_cell_idx})

\* partition_cache of apply_logical_reduction, filled: the partitions of the
\* sums and lengths that sectors of digits can have.
hybrid_partition_cache ==
  Strict([len \in 1 .. 9 |-> Strict([sum \in 0 .. 45 |-> get_partitions(sum, len)])])

\* get_partitions of apply_logical_reduction: none for a length outside 1 .. 9.
hybrid_partitions(sum, len) ==
  IF len > 9 \/ len < 1 THEN <<>>
  ELSE IF sum \in 0 .. 45 THEN hybrid_partition_cache[len][sum]
  ELSE get_partitions(sum, len)

\* The lambda apply_partition_pruning over the sectors of one direction:
\* each cell of a sector with a clue keeps the digits of its mask in
\* reference_candidates that some partition of the clue can give it; a mask
\* that differs from the reference one is written to candidates.
apply_partition_pruning(sectors, is_horz, candidates, reference_candidates, value) ==
  LET clued == SelectSeq(sectors, LAMBDA s : s.is_h = is_horz /\ s.clue # NoClue)
      NewMask(s, cell_idx) ==
        SelectSeq(reference_candidates[s.idx[cell_idx]], LAMBDA val :
          \E k \in 1 .. Len(hybrid_partitions(s.clue, Len(s.idx))) :
            can_assign_partition_to_sector(hybrid_partitions(s.clue, Len(s.idx))[k], s.idx,
                                           reference_candidates, value, cell_idx, val))
      Masks(new) ==
        IF \/ \E j \in 1 .. Len(clued) : hybrid_partitions(clued[j].clue, Len(clued[j].idx)) = <<>>
           \/ \E i \in DOMAIN new : new[i] = <<>> /\ reference_candidates[i] # <<>>
        THEN [c |-> candidates, res |-> "CONTRADICTION"]
        ELSE [c |-> Strict([i \in DOMAIN candidates |->
                              IF new[i] # reference_candidates[i] THEN new[i]
                              ELSE candidates[i]]),
              res |-> IF \E i \in DOMAIN new : new[i] # reference_candidates[i]
                      THEN "CHANGED" ELSE "NO_CHANGE"]
  IN Masks(Strict([i \in DOMAIN candidates |->
                     IF \E j \in 1 .. Len(clued) : \E k \in 1 .. Len(clued[j].idx) :
                          clued[j].idx[k] = i
                     THEN LET j == CHOOSE j \in 1 .. Len(clued) :
                                     \E k \in 1 .. Len(clued[j].idx) : clued[j].idx[k] = i
                          IN NewMask(clued[j],
                                     CHOOSE k \in 1 .. Len(clued[j].idx) : clued[j].idx[k] = i)
                     ELSE reference_candidates[i]]))

\* The queue of determined cells of one iteration of apply_logical_reduction:
\* a cell taken from the queue gets its digit as value, and the digit leaves
\* the masks of the other cells of its two sectors.
RECURSIVE NakedQueue(_, _, _, _, _, _)
NakedQueue(sectors, to_process, processed, candidates, value, changed) ==
  IF to_process = <<>>
  THEN [c |-> candidates, value |-> value, changed |-> changed, ok |-> TRUE]
  ELSE LET cell == Head(to_process)
           d == candidates[cell][1]
           secs == SectorOfCell(sectors, cell, TRUE) \o SectorOfCell(sectors, cell, FALSE)
           neighbors == SelectSeq(IF Len(secs) = 0 THEN <<>>
                                  ELSE IF Len(secs) = 1 THEN secs[1].idx
                                  ELSE secs[1].idx \o secs[2].idx,
                                  LAMBDA n : n # cell /\ d \in Range(candidates[n]))
           Removed(c1) ==
             IF \E k \in 1 .. Len(neighbors) : c1[neighbors[k]] = <<>>
             THEN [c |-> c1, value |-> value, changed |-> TRUE, ok |-> FALSE]
             ELSE NakedQueue(sectors,
                             Tail(to_process) \o SelectSeq(neighbors, LAMBDA n :
                                                     Len(candidates[n]) > 1 /\ Len(c1[n]) = 1),
                             processed \cup {cell}, c1, [value EXCEPT ![cell] = d],
                             changed \/ neighbors # <<>>)
       IN IF cell \in processed \/ Len(candidates[cell]) # 1
          THEN NakedQueue(sectors, Tail(to_process), processed \cup {cell}, candidates,
                          value, changed)
          ELSE Removed(Strict([i \in DOMAIN candidates |->
                                 IF \E k \in 1 .. Len(neighbors) : neighbors[k] = i
                                 THEN SelectSeq(candidates[i], LAMBDA x : x # d)
                                 ELSE candidates[i]]))

MAX_QUICK_ITERATIONS == 10

\* apply_logical_reduction from iteration `iterations` on: the result, the
\* masks and the values it leaves.  After a contradiction the caller puts
\* its own copies of masks and values back.
RECURSIVE ReductionLoop(_, _, _, _, _)
ReductionLoop(sectors, candidates, value, iterations, any_change) ==
  IF iterations >= MAX_QUICK_ITERATIONS
  THEN [res |-> IF any_change THEN "CHANGED" ELSE "NO_CHANGE", c |-> candidates,
        value |-> value]
  ELSE LET Contradiction == [res |-> "CONTRADICTION", c |-> candidates, value |-> value]
           Zero(c1) == \E i \in DOMAIN c1 : c1[i] = <<>>
           Vertical(q, h, v) ==
             IF v.res = "CONTRADICTION" \/ (v.res = "NO_CHANGE" /\ Zero(v.c))
             THEN Contradiction
             ELSE IF ~(q.changed \/ h.res = "CHANGED" \/ v.res = "CHANGED")
             THEN [res |-> IF any_change THEN "CHANGED" ELSE "NO_CHANGE", c |-> v.c,
                   value |-> q.value]
             ELSE ReductionLoop(sectors, v.c, q.value, iterations + 1, TRUE)
           Horizontal(q, h) ==
             IF h.res = "CONTRADICTION" \/ (h.res = "NO_CHANGE" /\ Zero(h.c))
             THEN Contradiction
             ELSE Vertical(q, h, apply_partition_pruning(sectors, FALSE, h.c, candidates,
                                                         q.value))
           Queued(q) ==
             IF ~q.ok THEN Contradiction
             ELSE Horizontal(q, apply_partition_pruning(sectors, TRUE, q.c, candidates,
                                                        q.value))
       IN Queued(NakedQueue(sectors,
                            SelectSeq([i \in DOMAIN candidates |-> i],
                                      LAMBDA i : Len(candidates[i]) = 1),
                            {}, candidates, value, FALSE))

apply_logical_reduction(sectors, candidates, value) ==
  ReductionLoop(sectors, candidates, value, 0, FALSE)
\* The lambda propagate of hybrid_search for the sector sec after var took
\* val: whether the sector can still meet its clue, and the masks without
\* val in the sector's cells that hold no value.
hybrid_propagate(sec, candidates, value, var, val) ==
  LET target == IF sec.clue = NoClue THEN 0 ELSE sec.clue
      n == Len(sec.idx)
      known == SelectSeq(sec.idx, LAMBDA i : value[i] # 0)
      unknown == SelectSeq(sec.idx, LAMBDA i : value[i] = 0)
      Bounds(c1, current_sum, min_remaining, max_remaining) ==
        IF \/ \E k \in 1 .. Len(known) : known[k] # var /\ value[known[k]] = val
           \/ \E k \in 1 .. Len(unknown) :
                c1[unknown[k]] = <<>> /\ candidates[unknown[k]] # <<>>
           \/ current_sum > target
           \/ (Len(unknown) = 0 /\ current_sum # target)
           \/ (Len(unknown) > 0 /\ current_sum + min_remaining > target)
           \/ (Len(unknown) > 0 /\ current_sum + max_remaining < target)
        THEN [ok |-> FALSE, c |-> candidates]
        ELSE [ok |-> TRUE, c |-> c1]
      Masked(c1) ==
        Bounds(c1,
               SeqSum([k \in 1 .. Len(known) |-> value[known[k]]]),
               SeqSum([k \in 1 .. Len(unknown) |->
                         IF c1[unknown[k]] = <<>> THEN 10 ELSE c1[unknown[k]][1]]),
               SeqSum([k \in 1 .. Len(unknown) |->
                         IF c1[unknown[k]] = <<>> THEN 0
                         ELSE c1[unknown[k]][Len(c1[unknown[k]])]]))
  IN IF target = 0 THEN [ok |-> TRUE, c |-> candidates]
     ELSE Masked(Strict([i \in DOMAIN candidates |->
                           IF \E k \in 1 .. Len(unknown) : unknown[k] = i
                           THEN SelectSeq(candidates[i], LAMBDA x : x # val)
                           ELSE candidates[i]]))

\* std::partition of the values by `differs from avoid_val`.
hybrid_order(vals, avoid_val) ==
  IF \E j \in 1 .. Len(vals) : vals[j] = avoid_val THEN Partition(vals, avoid_val) ELSE vals

RECURSIVE hybrid_search(_, _, _, _, _, _)
RECURSIVE HybridVals(_, _, _, _, _, _, _, _, _)

\* hybrid_search on the masks and values as they stand; S is found_solutions,
\* node_count (n) and timed_out, and the call's answer is S as it leaves it.
\* The masks and values are the caller's again when the call returns.
hybrid_search(sectors, avoid_sol, candidates, value, S, max_nodes) ==
  IF S.found # <<>> THEN S
  ELSE IF S.n > max_nodes THEN [S EXCEPT !.timed_out = TRUE]
  ELSE LET S1 == [S EXCEPT !.n = S.n + 1]
           Leaf(sol) ==
             IF /\ \A k \in 1 .. Len(sectors) :
                     sectors[k].clue = NoClue
                       \/ SeqSum([j \in 1 .. Len(sectors[k].idx) |-> sol[sectors[k].idx[j]]])
                            = sectors[k].clue
                /\ \E i \in DOMAIN sol : avoid_sol[i] # 0 /\ sol[i] # avoid_sol[i]
             THEN [S1 EXCEPT !.found = <<sol>>]
             ELSE S1
           Branch(v1, var) ==
             IF var = 0 THEN Leaf(v1)
             ELSE HybridVals(sectors, avoid_sol, candidates, v1, S1, max_nodes, var,
                             hybrid_order(candidates[var], avoid_sol[var]), 1)
           Determined(v1) ==
             IF \E i \in DOMAIN candidates : candidates[i] = <<>> THEN S1
             ELSE Branch(v1, MrvCell(candidates))
       IN Determined(Strict([i \in DOMAIN value |->
                               IF Len(candidates[i]) = 1 /\ value[i] = 0
                               THEN candidates[i][1] ELSE value[i]]))

\* The loop of hybrid_search over the values of var, from the k-th on.
HybridVals(sectors, avoid_sol, candidates, value, S, max_nodes, var, values, k) ==
  IF k > Len(values) THEN S
  ELSE LET val == values[k]
           Next1(S2) ==
             IF S2.found # <<>> \/ S2.timed_out THEN S2
             ELSE HybridVals(sectors, avoid_sol, candidates, value, S2, max_nodes, var,
                             values, k + 1)
           Down(v1, pv) ==
             IF ~pv.ok THEN Next1(S)
             ELSE Next1(hybrid_search(sectors, avoid_sol, pv.c, v1, S, max_nodes))
           Vert(v1, ph, sv) ==
             IF ~ph.ok THEN Next1(S)
             ELSE IF sv = <<>> THEN Down(v1, ph)
             ELSE Down(v1, hybrid_propagate(sv[1], ph.c, v1, var, val))
           Horz(c1, v1, sh) ==
             Vert(v1,
                  IF sh = <<>> THEN [ok |-> TRUE, c |-> c1]
                  ELSE hybrid_propagate(sh[1], c1, v1, var, val),
                  SectorOfCell(sectors, var, FALSE))
       IN Horz([candidates EXCEPT ![var] = <<val>>], [value EXCEPT ![var] = val],
               SectorOfCell(sectors, var, TRUE))

\* Step 3 of check_uniqueness_hybrid, init_sector_constraints: the cells of
\* a sector whose clue has partitions keep the digits of those partitions.
init_sector_constraints(sectors, candidates) ==
  Strict([i \in DOMAIN candidates |->
            SelectSeq(candidates[i], LAMBDA d :
              \A k \in 1 .. Len(sectors) :
                (/\ sectors[k].clue # NoClue
                 /\ \E j \in 1 .. Len(sectors[k].idx) : sectors[k].idx[j] = i
                 /\ hybrid_partitions(sectors[k].clue, Len(sectors[k].idx)) # <<>>)
                  => d \in PartitionMask(hybrid_partitions(sectors[k].clue,
                                                           Len(sectors[k].idx))))])

\* The last lines of check_uniqueness_hybrid: the verdict from what the
\* search found and whether it was cut short.
hybrid_verdict(found, timed_out) ==
  IF found # <<>> THEN MULTIPLE ELSE UNIQUE

\* check_uniqueness_hybrid(max_nodes, seed_offset): the verdict, the witness
\* (the digits of the white cells in white_cells order), node_count,
\* timed_out and the board it leaves.
check_uniqueness_hybrid(b, max_nodes, seed_offset) ==
  LET N == Len(b.white_cells)
      original_sol == Strict([i \in 1 .. N |-> b.value[b.white_cells[i][1]][b.white_cells[i][2]]])
      cleared == Strict([i \in 1 .. N |-> 0])
      Judged(S) ==
        [result |-> hybrid_verdict(S.found, S.timed_out), alt |-> S.found, n |-> S.n,
         timed_out |-> S.timed_out,
         b |-> [b EXCEPT !.value = [r \in Rows |-> [c \in Cols |->
                                     IF \E i \in 1 .. N : b.white_cells[i] = <<r, c>>
                                     THEN original_sol[CellIndex(b, <<r, c>>)]
                                     ELSE b.value[r][c]]]]]
      Start == [found |-> <<>>, n |-> 0, timed_out |-> FALSE]
      Reduced(sectors, candidates, red) ==
        IF red.res = "CONTRADICTION" \/ \E i \in 1 .. N : red.c[i] = <<>>
        THEN Judged(hybrid_search(sectors, original_sol, candidates, cleared, Start, max_nodes))
        ELSE Judged(hybrid_search(sectors, original_sol, red.c,
                                  Strict([i \in 1 .. N |->
                                            IF Len(red.c[i]) = 1 THEN red.c[i][1]
                                            ELSE red.value[i]]),
                                  Start, max_nodes))
      Initialized(sectors, candidates) ==
        Reduced(sectors, candidates, apply_logical_reduction(sectors, candidates, cleared))
      Sectors(sectors) ==
        Initialized(sectors,
                    init_sector_constraints(sectors, Strict([i \in 1 .. N |-> ALL_CANDIDATES])))
  IN Sectors(hybrid_sectors(b))

(***************************************************************************)
(* SpecHybrid: check_uniqueness_hybrid called on the filled boards of      *)
(* SpecUniq.  st has the fields of SpecUniq; st.alt is found_solutions.    *)
(***************************************************************************)
\* The node budgets handed to check_uniqueness_hybrid: ones a search with a
\* choice to make exceeds, and the one the callers of check_uniqueness use.
HybridBudgets == {0, 1, 150000}

HybridCheck ==
  /\ pc = "filled"
  /\ \E max_nodes \in HybridBudgets, seed_offset \in UniqSeeds :
       \E u \in {check_uniqueness_hybrid(board, max_nodes, seed_offset)} :
          /\ board' = u.b
          /\ pc' = "checked"
          /\ st' = [op |-> "check_uniqueness_hybrid", before |-> board, result |-> u.result,
                    alt |-> u.alt, n |-> u.n, timed_out |-> u.timed_out,
                    max_nodes |-> max_nodes, passes |-> <<>>, T |-> 3]

NextHybrid == HybridCheck

SpecHybrid == InitUniq /\ [][NextHybrid]_vars

(***************************************************************************)
(* SpecMove: is_valid_move under growing partial assignments.  The boards  *)
(* are the filled boards of two overlapping 2 x 2 blocks with their clues, *)
(* their values cleared; a step gives one more cell a digit that no cell   *)
(* of its sectors holds, as every caller of is_valid_move does.  st.before *)
(* is the board before the step, st.cell the cell it assigned, st.n the    *)
(* number of cells assigned.                                               *)
(***************************************************************************)

MaxAssigned == 2

\* The listed white cells of b without their values; the clues stay.
ClearedValues(b) ==
  [b EXCEPT !.value = [r \in Rows |-> [c \in Cols |->
                         IF <<r, c>> \in Range(b.white_cells) THEN 0 ELSE b.value[r][c]]]]

MoveBoards == {ClearedValues(b) : b \in {x \in UniqBoards : Len(x.white_cells) = 7}}

\* The digits that is_valid_move accepts for cell on b: what get_domain_size
\* counts.
ValidDomain(b, cell) == {v \in Digits : is_valid_move(b, NoAssign, cell, v, FALSE)}

InitMove ==
  /\ board \in MoveBoards
  /\ pc = "move"
  /\ st = [op |-> "clear", before |-> board, cell |-> NoCell, n |-> 0]

MoveAssign ==
  /\ pc = "move"
  /\ st.n < MaxAssigned
  /\ \E cell \in Range(board.white_cells), v \in Digits :
       /\ board.value[cell[1]][cell[2]] = 0
       /\ is_valid_move(board, NoAssign, cell, v, TRUE)
       /\ board' = [board EXCEPT !.value[cell[1]][cell[2]] = v]
       /\ st' = [op |-> "assign", before |-> board, cell |-> cell, n |-> st.n + 1]
       /\ pc' = "move"

NextMove == MoveAssign

SpecMove == InitMove /\ [][NextMove]_vars

(***************************************************************************)
(* SpecPart: the partition oracles under queries in any order.  st holds   *)
(* the estimator's partition_cache and partition_mask_cache and the        *)
(* solver's partition_cache (count_cache), the last query (op, sum, len),  *)
(* its answer ret, whether a cache answered it (hit), and the number n of  *)
(* queries made.  The first query is any of PartSums x PartLens, a later   *)
(* one repeats the pair of the one before or takes one of LaterPairs.      *)
(***************************************************************************)
MaxQueries == 2

PartSums == 0 .. 46
PartLens == (0 - 1) .. 10
LaterPairs == {<<10, 2>>, <<10, 3>>, <<3, 2>>, <<0, 0>>}

RECURSIVE count_partitions_recursive(_, _, _, _)
count_partitions_recursive(remaining_sum, remaining_length, min_digit, used) ==
  IF remaining_length = 0 THEN (IF remaining_sum = 0 THEN 1 ELSE 0)
  ELSE IF remaining_sum <= 0 \/ min_digit > 9 THEN 0
  ELSE LET available == SelectSeq([i \in 1 .. 9 |-> i],
                                  LAMBDA d : d >= min_digit /\ d \notin used)
           size == Len(available)
           start == IF size - remaining_length < 0 THEN 0 ELSE size - remaining_length
           min_possible == SeqSum(SubSeq(available, 1, remaining_length))
           max_possible == SeqSum(SubSeq(available, start + 1, size))
       IN IF size < remaining_length THEN 0
          ELSE IF remaining_sum < min_possible \/ remaining_sum > max_possible THEN 0
          ELSE SeqSum([i \in 1 .. size |->
                         count_partitions_recursive(remaining_sum - available[i],
                                                    remaining_length - 1, available[i] + 1,
                                                    used \cup {available[i]})])

\* count_partitions without its bounds check.
count_partitions_unchecked(partition_cache, target_sum, length) ==
  IF <<target_sum, length>> \in DOMAIN partition_cache
  THEN [ret |-> partition_cache[<<target_sum, length>>], partition_cache |-> partition_cache,
        hit |-> TRUE]
  ELSE LET result == count_partitions_recursive(target_sum, length, 1, {})
       IN [ret |-> result,
           partition_cache |-> partition_cache @@ (<<target_sum, length>> :> result),
           hit |-> FALSE]

\* CSPSolver::count_partitions(target_sum, length) when its partition_cache
\* has no entry for it.
count_partitions(target_sum, length) ==
  IF length <= 0 \/ length > 9 \/ target_sum <= 0 \/ target_sum > 45 THEN 0
  ELSE count_partitions_recursive(target_sum, length, 1, {})

\* count_partitions with the solver's partition_cache as it stands.
count_partitions_cached(partition_cache, target_sum, length) ==
  IF length <= 0 \/ length > 9 \/ target_sum <= 0 \/ target_sum > 45
  THEN [ret |-> 0, partition_cache |-> partition_cache, hit |-> FALSE]
  ELSE IF <<target_sum, length>> \in DOMAIN partition_cache
  THEN [ret |-> partition_cache[<<target_sum, length>>], partition_cache |-> partition_cache,
        hit |-> TRUE]
  ELSE LET result == count_partitions(target_sum, length)
       IN [ret |-> result,
           partition_cache |-> partition_cache @@ (<<target_sum, length>> :> result),
           hit |-> FALSE]

\* The pairs a query may ask for.
QueryPairs ==
  IF st.n = 0 THEN PartSums \X PartLens ELSE LaterPairs \cup {<<st.sum, st.len>>}

InitPart ==
  /\ board = NewBoard
  /\ pc = "oracle"
  /\ st = [op |-> "new", sum |-> 0, len |-> 0, ret |-> <<>>, hit |-> FALSE, n |-> 0,
           partition_cache |-> <<>>, partition_mask_cache |-> <<>>, count_cache |-> <<>>]

GetPartitions ==
  /\ pc = "oracle"
  /\ st.n < MaxQueries
  /\ \E q \in QueryPairs :
       \E a \in {get_partitions_cached(st.partition_cache, q[1], q[2])} :
         st' = [st EXCEPT !.op = "get_partitions", !.sum = q[1], !.len = q[2],
                          !.ret = a.ret, !.hit = a.hit, !.n = @ + 1,
                          !.partition_cache = a.partition_cache]
  /\ UNCHANGED <<board, pc>>

GetPartitionBits ==
  /\ pc = "oracle"
  /\ st.n < MaxQueries
  /\ \E q \in QueryPairs :
       \E a \in {get_partition_bits_cached(st.partition_cache, st.partition_mask_cache,
                                           q[1], q[2])} :
         st' = [st EXCEPT !.op = "get_partition_bits", !.sum = q[1], !.len = q[2],
                          !.ret = a.ret, !.hit = a.hit, !.n = @ + 1,
                          !.partition_cache = a.partition_cache,
                          !.partition_mask_cache = a.partition_mask_cache]
  /\ UNCHANGED <<board, pc>>

CountPartitions ==
  /\ pc = "oracle"
  /\ st.n < MaxQueries
  /\ \E q \in QueryPairs :
       \E a \in {count_partitions_cached(st.count_cache, q[1], q[2])} :
         st' = [st EXCEPT !.op = "count_partitions", !.sum = q[1], !.len = q[2],
                          !.ret = a.ret, !.hit = a.hit, !.n = @ + 1,
                          !.count_cache = a.partition_cache]
  /\ UNCHANGED <<board, pc>>

\* The caches of a KakuroDifficultyEstimator after estimate_difficulty_detailed
\* on board b: partition_cache is cleared at the start of the run; the ladder
\* then asks get_partition_bits for every clued sector and its last pass asks
\* get_partitions for every clued sector.
RECURSIVE SectorQueries(_, _, _, _)
SectorQueries(sectors, k, bits, caches) ==
  IF k > Len(sectors) THEN caches
  ELSE LET Asked(a) ==
             SectorQueries(sectors, k + 1, bits,
                           [partition_cache |-> a.partition_cache,
                            partition_mask_cache |->
                              IF bits THEN a.partition_mask_cache
                              ELSE caches.partition_mask_cache])
       IN IF bits
          THEN Asked(get_partition_bits_cached(caches.partition_cache,
                                               caches.partition_mask_cache,
                                               sectors[k].clue, Len(sectors[k].idx)))
          ELSE Asked(get_partitions_cached(caches.partition_cache,
                                           sectors[k].clue, Len(sectors[k].idx)))

estimator_caches(b, partition_mask_cache) ==
  LET cleared == [partition_cache |-> <<>>, partition_mask_cache |-> partition_mask_cache]
      Run(sectors) ==
        IF b.white_cells = <<>> \/ sectors = <<>> THEN cleared
        ELSE SectorQueries(sectors, 1, FALSE, SectorQueries(sectors, 1, TRUE, cleared))
  IN Run(all_sectors(b))

\* The boards the estimator is run on between the queries.
RunBoards == {NewBoard, FilledBoard(ShapeBoard(BlockShape), <<1, 2, 2, 3>>)}

EstimatorRun ==
  /\ pc = "oracle"
  /\ st.n < MaxQueries
  /\ \E b \in RunBoards :
       \E a \in {estimator_caches(b, st.partition_mask_cache)} :
         /\ board' = b
         /\ st' = [st EXCEPT !.op = "estimate_difficulty_detailed", !.n = @ + 1,
                             !.hit = FALSE,
                             !.partition_cache = a.partition_cache,
                             !.partition_mask_cache = a.partition_mask_cache]
  /\ UNCHANGED pc

NextPart ==
  \/ GetPartitions
  \/ GetPartitionBits
  \/ CountPartitions
  \/ EstimatorRun

SpecPart == InitPart /\ [][NextPart]_vars

(***************************************************************************)
(* SpecEst: the difficulty estimator called on filled boards with clues:   *)
(* the boards of SpecUniq of at most seven cells, and a fill of a 3 x 5    *)
(* block on which the estimator passes its first time check.  st.res is    *)
(* the DifficultyResult, st.est_expired whether the estimator's time limit *)
(* had passed at its time checks.                                          *)
(***************************************************************************)
DeepShape == {<<1 + i, 1 + j>> : i \in 0 .. 2, j \in 0 .. 4}
DeepValues == <<3, 8, 6, 9, 7, 5, 4, 8, 3, 9, 8, 1, 5, 7, 3>>

\* A fill with one solution on which find_hidden_singles acts.
HiddenShape == {<<1, 2>>, <<1, 3>>, <<2, 2>>, <<2, 3>>, <<2, 4>>, <<3, 3>>, <<3, 4>>}
HiddenValues == <<5, 9, 9, 7, 8, 6, 9>>

EstBoards ==
  {b \in UniqBoards : Len(b.white_cells) <= 7}
  \cup {FilledBoard(ShapeBoard(DeepShape), DeepValues)}
  \cup {FilledBoard(ShapeBoard(HiddenShape), HiddenValues)}

InitEst ==
  /\ board \in EstBoards
  /\ pc = "clued"
  /\ st = [op |-> "calculate_clues", est_expired |-> FALSE,
           res |-> [solve_path |-> <<>>, max_tier |-> 1, solution_count |-> 0,
                    solutions |-> <<>>, uniqueness |-> "", search_aborted |-> FALSE,
                    nodes_explored |-> 0]]

EstimateDifficulty ==
  /\ pc = "clued"
  /\ \E est_expired \in BOOLEAN :
       \E res \in {estimate_difficulty_detailed(board, est_expired)} :
         st' = [op |-> "estimate_difficulty_detailed", est_expired |-> est_expired,
                res |-> res]
  /\ pc' = "estimated"
  /\ UNCHANGED board

NextEst == EstimateDifficulty

SpecEst == InitEst /\ [][NextEst]_vars

(***************************************************************************)
(* Properties of the board operations, checked under SpecOps.              *)
(***************************************************************************)

\* The operations claim C5 lists as symmetry preserving.
SymmetricOps ==
  {"stamp_rect", "place_random_seed", "grow_lattice", "slice_long_runs",
   "slice_soft_runs", "break_large_patches", "prune_singles",
   "try_remove_and_reconnect", "break_single_runs", "fix_invalid_runs",
   "ensure_connectivity", "block_sym"}

\* C5: central symmetry is preserved by every topology mutation pass: when
\* the grid was symmetric before one of the listed operations, it is
\* symmetric after it.
C5_SymmetryPreserved ==
  (pc = "ops" /\ st.op \in SymmetricOps /\ st.sym) => Symmetric(board)

\* try_remove_and_reconnect removed a cell of a symmetric grid and bridged
\* the components that were left.
C5_Witness ==
  /\ pc = "ops"
  /\ st.op = "try_remove_and_reconnect"
  /\ st.sym
  /\ st.ok
  /\ st.whites > 0
  /\ Cardinality(Whites(board)) >= st.whites
  /\ Symmetric(board)

\* Every cell of row 0, row H-1, column 0 and column W-1 is BLOCK.
BorderBlock(b) == \A p \in Pos \ Interior : TypeAt(b, p) = BLOCK

\* C7: in every state reachable by any sequence of the board operations,
\* with arbitrary coordinates, the border cells are BLOCK: white cells exist
\* only at 1 <= r <= H-2 and 1 <= c <= W-2.
C7_BorderAlwaysBlock == pc = "ops" => BorderBlock(board)

\* set_white was called on the empty board with a coordinate on the border or
\* outside the grid, and left the board empty.
C7_Witness ==
  /\ pc = "ops"
  /\ st.op = "set_white"
  /\ st.n = 1
  /\ Whites(board) = {}

(***************************************************************************)
(* Properties of the uniqueness checks, checked under SpecUniq.            *)
(***************************************************************************)

\* The values, types and clues of every cell of b, as one record.
CellState(b) == [value |-> b.value, type |-> b.type, clue_h |-> b.clue_h, clue_v |-> b.clue_v]

\* Every white cell of b holds a digit.
AllFilled(b) == \A p \in Whites(b) : b.value[p[1]][p[2]] \in Digits

SmallBoard(b) == Len(b.white_cells) <= 7

SectorsOf(b, cell) == {b.sector_h[cell[1]][cell[2]], b.sector_v[cell[1]][cell[2]]}

RECURSIVE DigitSum(_)
DigitSum(S) == IF S = {} THEN 0 ELSE LET d == CHOOSE x \in S : TRUE IN d + DigitSum(S \ {d})

\* The sets of digits by size and sum.
SubsetTable ==
  LET sums == Strict([S \in SUBSET Digits |-> DigitSum(S)])
  IN Strict([len \in 0 .. 9 |->
               Strict([sum \in 0 .. 45 |->
                         Enumerated({S \in SUBSET Digits :
                                       Cardinality(S) = len /\ sums[S] = sum})])])

\* The len-element subsets of {1..9} whose elements sum to sum.
SubsetsSumming(sum, len) ==
  IF sum \in 0 .. 45 /\ len \in 0 .. 9 THEN SubsetTable[len][sum] ELSE {}

IsAscending(p) == \A i \in 1 .. Len(p) - 1 : p[i] < p[i + 1]

\* The last query asked for a sum in 1..45 and a length in 1..9.
InRange == st.sum \in 1 .. 45 /\ st.len \in 1 .. 9

\* C14: for a sum in 1..45 and a length in 1..9, whatever was asked before,
\* get_partitions answers with the length-element subsets of {1..9} that sum
\* to the sum, each once and with its digits ascending, get_partition_bits
\* with the union of their digits, count_partitions with their number; and
\* an answer from a cache is the answer of a fresh computation.
C14_PartitionsExact ==
  (pc = "oracle" /\ st.n > 0 /\ InRange) =>
    /\ st.op = "get_partitions"
         => /\ \A i \in 1 .. Len(st.ret) :
                 /\ IsAscending(st.ret[i])
                 /\ Range(st.ret[i]) \subseteq Digits
                 /\ \A j \in 1 .. Len(st.ret) : i # j => st.ret[i] # st.ret[j]
            /\ {Range(st.ret[i]) : i \in 1 .. Len(st.ret)} = SubsetsSumming(st.sum, st.len)
            /\ st.ret = get_partitions(st.sum, st.len)
    /\ st.op = "get_partition_bits"
         => /\ st.ret = UNION SubsetsSumming(st.sum, st.len)
            /\ st.ret = PartitionMask(get_partitions(st.sum, st.len))
    /\ st.op = "count_partitions"
         => /\ st.ret = Cardinality(SubsetsSumming(st.sum, st.len))
            /\ st.ret = count_partitions(st.sum, st.len)

\* get_partitions(10, 3), answered from the cache that an earlier
\* get_partition_bits(10, 3) filled, lists the four partitions of 10.
C14_Witness ==
  /\ pc = "oracle"
  /\ st.n = 2
  /\ st.op = "get_partitions"
  /\ st.hit
  /\ st.sum = 10
  /\ st.len = 3
  /\ st.ret = <<<<1, 2, 7>>, <<1, 3, 6>>, <<1, 4, 5>>, <<2, 3, 5>>>>
  /\ DOMAIN st.partition_mask_cache # {}

\* C15 as stated: for a length outside 1..9 or a sum outside 1..45, sum 0
\* with length 0 among them, get_partitions returns the empty list,
\* get_partition_bits 0 and count_partitions 0.
C15_EmptyOutOfRange ==
  (pc = "oracle" /\ st.n > 0 /\ ~InRange) =>
    /\ st.op = "get_partitions" => st.ret = <<>>
    /\ st.op = "get_partition_bits" => st.ret = {}
    /\ st.op = "count_partitions" => st.ret = 0

\* C15, amended: for a length outside 1..9 or a sum outside 1..45,
\* get_partition_bits returns 0 and count_partitions 0; get_partitions
\* returns the empty list, except for sum 0 with length 0, where it returns
\* the list that holds the one empty partition.
C15_EmptyOutOfRangeButZero ==
  (pc = "oracle" /\ st.n > 0 /\ ~InRange) =>
    /\ st.op = "get_partitions"
         => st.ret = IF st.sum = 0 /\ st.len = 0 THEN <<<<>>>> ELSE <<>>
    /\ st.op = "get_partition_bits" => st.ret = {}
    /\ st.op = "count_partitions" => st.ret = 0

\* get_partition_bits(0, 0) returned 0 after get_partitions(0, 0) had put
\* the list of the one empty partition into the cache.
C15_Witness ==
  /\ pc = "oracle"
  /\ st.n = 2
  /\ st.op = "get_partition_bits"
  /\ st.sum = 0
  /\ st.len = 0
  /\ st.ret = {}
  /\ <<0, 0>> \in DOMAIN st.partition_cache
  /\ st.partition_cache[<<0, 0>>] = <<<<>>>>

(***************************************************************************)
(* The rules of the puzzle, stated on the grid alone: the runs of white    *)
(* cells with the clue before each, and the assignments that satisfy them. *)
(* An assignment lists the digits of the white cells in white_cells order. *)
(***************************************************************************)
\* The white cells that a row or a column of white cells joins to p.
RowRun(b, p) ==
  {q \in Whites(b) : /\ q[1] = p[1]
                     /\ \A c \in Min(p[2], q[2]) .. Max(p[2], q[2]) : b.type[p[1]][c] = WHITE}

ColRun(b, p) ==
  {q \in Whites(b) : /\ q[2] = p[2]
                     /\ \A r \in Min(p[1], q[1]) .. Max(p[1], q[1]) : b.type[r][p[2]] = WHITE}

\* The runs of b that have a clue, each with the places of its cells in
\* white_cells and its clue.
CluedRuns(b) ==
  LET Places(run) == {CellIndex(b, q) : q \in run}
      Left(run) == CHOOSE q \in run : \A x \in run : q[2] <= x[2]
      Top(run) == CHOOSE q \in run : \A x \in run : q[1] <= x[1]
      rows == {[idx |-> Places(RowRun(b, p)),
                clue |-> LET q == Left(RowRun(b, p))
                         IN IF q[2] = 0 THEN NoClue ELSE b.clue_h[q[1]][q[2] - 1]]
               : p \in Whites(b)}
      cols == {[idx |-> Places(ColRun(b, p)),
                clue |-> LET q == Top(ColRun(b, p))
                         IN IF q[1] = 0 THEN NoClue ELSE b.clue_v[q[1] - 1][q[2]]]
               : p \in Whites(b)}
  IN {run \in rows \cup cols : run.clue # NoClue}

RECURSIVE SumOver(_, _)
SumOver(t, idx) ==
  IF idx = {} THEN 0 ELSE LET i == CHOOSE x \in idx : TRUE IN t[i] + SumOver(t, idx \ {i})

\* The digits t gives to the first Len(t) white cells break no run: no digit
\* twice in a run, no sum above the clue, and the clue met by a full run.
PartialOk(runs, t) ==
  \A run \in runs :
    Len(t) \in run.idx =>
      LET done == {i \in run.idx : i <= Len(t)}
      IN /\ \A i, j \in done : i # j => t[i] # t[j]
         /\ SumOver(t, done) <= run.clue
         /\ done = run.idx => SumOver(t, done) = run.clue

RECURSIVE Extend(_, _, _, _)
Extend(runs, S, i, n) ==
  IF i > n THEN S
  ELSE Extend(runs, {t \in {Append(s, v) : s \in S, v \in Digits} : PartialOk(runs, t)},
              i + 1, n)

\* The complete assignments that satisfy every clued run of b.
AllSolutions(b) == Extend(CluedRuns(b), {<<>>}, 1, Len(b.white_cells))

\* t is a complete assignment that satisfies every clued run of b.
IsSolution(b, t) ==
  /\ Len(t) = Len(b.white_cells)
  /\ \A i \in 1 .. Len(t) : t[i] \in Digits
  /\ \A run \in CluedRuns(b) :
       /\ \A i, j \in run.idx : i # j => t[i] # t[j]
       /\ SumOver(t, run.idx) = run.clue

(***************************************************************************)
(* Properties of the estimator, checked under SpecEst.                     *)
(***************************************************************************)

\* C17: when the estimator's budget was not exceeded, solution_count is
\* min(3, N) for the number N of complete assignments that satisfy every
\* clued sector: the solutions found are that many, distinct and valid, at
\* most 3, and all there are when fewer than 3; they are the ones the search
\* finds from full masks without the ladder; and uniqueness is "Unique"
\* exactly when the count is 1.
C17_SolutionCount ==
  (pc = "estimated" /\ ~st.res.search_aborted) =>
    LET found == st.res.solutions
        fresh == discover_solutions(all_sectors(board),
                                    [i \in 1 .. Len(board.white_cells) |-> ALL_CANDIDATES], 3,
                                    [found |-> <<>>, nodes |-> 0, aborted |-> FALSE], FALSE)
    IN /\ st.res.solution_count = Len(found)
       /\ Len(found) <= 3
       /\ \A i \in 1 .. Len(found) :
            /\ IsSolution(board, found[i])
            /\ \A j \in 1 .. Len(found) : i # j => found[i] # found[j]
       /\ Len(found) < 3 => Range(found) = AllSolutions(board)
       /\ found = fresh.found
       /\ (st.res.uniqueness = "Unique") = (st.res.solution_count = 1)

\* The ladder ended with a wrong digit in a cell (hidden_singles is no valid
\* deduction) and the count is still the two solutions the board has.
C17_Witness ==
  /\ pc = "estimated"
  /\ ~st.res.search_aborted
  /\ st.res.solution_count = 2
  /\ Cardinality(AllSolutions(board)) = 2
  /\ st.res.uniqueness = "Multiple"
  /\ \E i \in 1 .. Len(st.res.solve_path) : st.res.solve_path[i].technique = "hidden_singles"

\* The sectors of b of length 2 with clue 3.
SectorsOfTwoSummingThree(b) ==
  {k \in 1 .. Len(all_sectors(b)) :
     Len(all_sectors(b)[k].idx) = 2 /\ all_sectors(b)[k].clue = 3}

HasStep(technique) ==
  \E i \in 1 .. Len(st.res.solve_path) : st.res.solve_path[i].technique = technique

C28_NoPartitionSteps ==
  pc = "estimated" =>
    /\ ~HasStep("simple_partition")
    /\ ~HasStep("complex_intersection")
    /\ st.res.max_tier \in {1, 3, 5}

\* A board with a sector that has one partition only whose ladder logged
\* three steps or more, so that its last pass, in which every technique
\* including analyze_complex_intersections ran, changed nothing; max_tier 3.
C28_Witness ==
  /\ pc = "estimated"
  /\ \E k \in 1 .. Len(all_sectors(board)) :
       Len(get_partitions(all_sectors(board)[k].clue, Len(all_sectors(board)[k].idx))) = 1
  /\ Len(st.res.solve_path) >= 3
  /\ HasStep("constraint_propagation")
  /\ st.res.max_tier = 3

\* The masks c hold the digit the solution t places in every white cell.
Holds(c, t) == \A i \in DOMAIN c : t[i] \in Range(c[i])

\* Every pass of the ladder of run_solve_loop from the state L on keeps the
\* solution t inside the masks if it was inside them before the pass.
RECURSIVE PassesSound(_, _, _, _)
PassesSound(sectors, L, iterations, t) ==
  LET Passed(a) ==
        /\ Holds(L.c, t) => Holds(a.l.c, t)
        /\ (a.ret /\ iterations + 1 < 100) => PassesSound(sectors, a.l, iterations + 1, t)
  IN Passed(apply_logic_pass(sectors, L, FALSE, iterations + 1))

\* C27: the logic ladder is sound: for every solution of the puzzle, a pass of
\* apply_logic_pass that starts with masks holding the solution's digits ends
\* with masks holding them.
C27_LadderSound ==
  pc = "estimated" =>
    \A t \in AllSolutions(board) :
      PassesSound(all_sectors(board),
                  [c |-> search_start(board, <<>>), log |-> <<>>, logged_singles |-> {},
                   E |-> [found |-> <<>>, nodes |-> 0, aborted |-> FALSE]],
                  0, t)


\* Every entry of cache c is an entry of cache d.
EntriesKept(c, d) == \A key \in DOMAIN c : key \in DOMAIN d /\ d[key] = c[key]

DrawnRect == {<<st.draw.top_r + i, st.draw.left_c + j>> :
                i \in 0 .. st.draw.h - 1, j \in 0 .. st.draw.w - 1}

DrewStamp == pc = "ops" /\ st.op = "generate_stamps" /\ st.draw # NoDraw

Components(W) == ComponentsOf(W, RowMajor(W))

SectorsRebuilt ==
  /\ pc = "ops"
  /\ \/ st.op \in {"identify_sectors", "stabilize_grid"}
     \/ st.op \in {"break_single_runs", "try_remove_and_reconnect"} /\ st.ok

\* Every WHITE cell refers to the sectors of sectors_h and sectors_v that
\* contain it.
WhiteRefsFresh(b) ==
  \A p \in Whites(b) :
    /\ p \in Range(b.sector_h[p[1]][p[2]])
    /\ p \in Range(b.sector_v[p[1]][p[2]])
    /\ \E i \in 1 .. Len(b.sectors_h) : b.sectors_h[i] = b.sector_h[p[1]][p[2]]
    /\ \E i \in 1 .. Len(b.sectors_v) : b.sectors_v[i] = b.sector_v[p[1]][p[2]]

\* The BLOCK cells that refer to a sector: one of an earlier rebuild, since
\* the sectors of a rebuild hold WHITE cells only.
StaleRefs(b) ==
  {p \in Pos \ Whites(b) : b.sector_h[p[1]][p[2]] # <<>> \/ b.sector_v[p[1]][p[2]] # <<>>}

\* C25 as stated: after identify_sectors every WHITE cell refers to the
\* fresh sectors that contain it and no cell of the grid refers to a sector
\* of an earlier rebuild.
C25_NoStaleSectorRefs ==
  SectorsRebuilt => WhiteRefsFresh(board) /\ StaleRefs(board) = {}

\* C25 as the code has it: after identify_sectors every WHITE cell refers to
\* the fresh sectors that contain it, sectors_h and sectors_v hold WHITE
\* cells only, and no cell of white_cells refers to a sector of an earlier
\* rebuild; a cell turned to BLOCK that was dropped from white_cells before
\* the rebuild keeps the references it had.
C25_ListedRefsFresh ==
  SectorsRebuilt =>
    /\ WhiteRefsFresh(board)
    /\ \A i \in 1 .. Len(board.sectors_h) : Range(board.sectors_h[i]) \subseteq Whites(board)
    /\ \A i \in 1 .. Len(board.sectors_v) : Range(board.sectors_v[i]) \subseteq Whites(board)
    /\ StaleRefs(board) \cap Range(board.white_cells) = {}

\* identify_sectors rebuilt the sectors of a board with WHITE cells, and a
\* BLOCK cell that white_cells no longer lists still refers to the sector it
\* was in before.
C25_Witness ==
  /\ SectorsRebuilt
  /\ Whites(board) # {}
  /\ StaleRefs(board) # {}
  /\ StaleRefs(board) \cap Range(board.white_cells) = {}

\* C29 as stated: attempt_fill_and_validate never returns true for a fill
\* whose DifficultyResult has search_aborted set.
C29_NoCommitAfterAbort ==
  (pc = "returned" /\ st.ret = TRUE) => ~st.aborted

\* C29 as the code has it: after a UNIQUE robust check the fill is committed
\* exactly when the estimator's solution_count is 1, whether or not its
\* search was aborted; a call that returns true returns from that branch.
C29_CommitOnCountOne ==
  [][/\ (pc = "verdict" /\ st.result = UNIQUE) =>
          ((pc' = "returned" /\ st'.ret = TRUE) <=> st'.count = 1)
     /\ (pc' = "returned" /\ st'.ret = TRUE) =>
          (pc = "verdict" /\ st.result = UNIQUE /\ st'.count = 1)]_vars

\* generate_puzzle returned true for a fill whose estimator stopped on its
\* time limit with one solution found.
C29_Witness ==
  /\ pc = "returned"
  /\ st.ret = TRUE
  /\ st.aborted
  /\ st.count = 1

\* C21 as stated: an INCONCLUSIVE result of the robust check is handled like
\* MULTIPLE: the iteration that ends with it counts the fill, repairs the
\* topology or abandons it.
C21_InconclusiveCounts ==
  [][(pc = "verdict" /\ st.result = INCONCLUSIVE /\ pc' # pc) =>
       \/ st'.fills = st.fills + 1
       \/ st'.repairs = st.repairs + 1
       \/ pc' = "generate_puzzle"]_vars

\* C21 as the code has it: after an INCONCLUSIVE result the iteration ends
\* with return false when check_timeout answers true, and otherwise the loop
\* goes on with the next fill attempt on the same topology: the fill is not
\* counted, nothing is learned and nothing is repaired.
C21_InconclusiveRetries ==
  [][(pc = "verdict" /\ st.result = INCONCLUSIVE /\ pc' # pc) =>
       IF st.expired
       THEN pc' = "generate_puzzle" /\ st'.timeout
       ELSE /\ pc' = "fill"
            /\ board' = board
            /\ st'.fill_attempt = st.fill_attempt + 1
            /\ st'.fills = st.fills
            /\ st'.forbidden = st.forbidden
            /\ st'.repairs = st.repairs
            /\ st'.topo_attempt = st.topo_attempt]_vars

\* The loop is at its second or a later fill attempt after an INCONCLUSIVE
\* result within the time limit, with no fill counted, nothing learned and
\* nothing repaired.
C21_Witness ==
  /\ pc = "fill"
  /\ st.last = INCONCLUSIVE
  /\ ~st.expired
  /\ st.fill_attempt >= 1
  /\ st.fills = 0
  /\ st.forbidden = <<>>
  /\ st.repairs = 0

\* A step of the fill loop that runs solve_fill.
FillStep ==
  /\ pc = "fill"
  /\ ~st.expired
  /\ st.fill_attempt < MAX_FILL_ATTEMPTS * MAX_REPAIR_ATTEMPTS
  /\ (pc' # pc \/ st'.fill_attempt # st.fill_attempt)

C26_NoFillRejected ==
  /\ st.fill # "ambiguous"
  /\ (pc = "robust" /\ st.i = 0) =>
       /\ ~has_high_global_ambiguity(board)
       /\ \A i \in 1 .. Len(board.white_cells) :
            ValidDomain(board, board.white_cells[i])
              = {board.value[board.white_cells[i][1]][board.white_cells[i][2]]}

\* A fill has passed the ambiguity test and waits for the first pass of the
\* robust uniqueness check.
C26_Witness ==
  /\ pc = "robust"
  /\ st.i = 0
  /\ st.fill = "filled"
  /\ Len(board.white_cells) >= 12

C18_TimeoutReturnsFalse ==
  /\ (pc = "returned" /\ st.timeout) => st.ret = FALSE
  /\ st.timeout => st.expired

\* generate_puzzle returned after a check_timeout of the call answered true
\* in the fill loop or in the robust uniqueness check.
C18_Witness ==
  /\ pc = "returned"
  /\ st.timeout
  /\ st.ret = FALSE
  /\ st.fill = "filled"

\* C9: check_uniqueness returns INCONCLUSIVE, never UNIQUE, whenever its
\* search stopped because node_count exceeded max_nodes or because the time
\* limit had passed at a time check (timed_out), with no differing solution
\* found.
C9_CutShortIsInconclusive ==
  (pc = "checked" /\ st.op = "check_uniqueness") =>
    /\ (st.alt = <<>> /\ st.timed_out) => st.result = INCONCLUSIVE
    /\ st.result = UNIQUE => (~st.timed_out /\ st.n <= st.max_nodes + 1)
    /\ st.result = INCONCLUSIVE => (st.alt = <<>> /\ st.timed_out)

\* check_uniqueness stopped at the node past a budget of two with no
\* differing solution and returned INCONCLUSIVE.
C9_Witness ==
  /\ pc = "checked"
  /\ st.op = "check_uniqueness"
  /\ st.max_nodes = 2
  /\ st.n > st.max_nodes
  /\ st.alt = <<>>
  /\ st.result = INCONCLUSIVE

\* The values of the white cells of b in the grid of values g, in the order
\* of white_cells.
ValuesOf(b, g) == [i \in 1 .. Len(b.white_cells) |-> g[b.white_cells[i][1]][b.white_cells[i][2]]]

\* C8: when check_uniqueness ends within its node budget and the time limit,
\* its verdict is exact: MULTIPLE exactly when a complete assignment other
\* than the reference satisfies every sector's distinct-digits and sum
\* constraints, with such an assignment as the witness, and UNIQUE
\* otherwise.
C8_VerdictExact ==
  (pc = "checked" /\ st.op = "check_uniqueness" /\ ~st.timed_out) =>
    /\ st.result \in {UNIQUE, MULTIPLE}
    /\ st.result = MULTIPLE =>
         /\ Len(st.alt) = 1
         /\ IsSolution(st.before, ValuesOf(st.before, st.alt[1]))
         /\ ValuesOf(st.before, st.alt[1]) # ValuesOf(st.before, st.before.value)
    /\ SmallBoard(st.before) =>
         (st.result = MULTIPLE
            <=> AllSolutions(st.before) \ {ValuesOf(st.before, st.before.value)} # {})

\* check_uniqueness returned UNIQUE for a fill of two overlapping blocks
\* which is the only solution of its clues.
C8_Witness ==
  /\ pc = "checked"
  /\ st.op = "check_uniqueness"
  /\ st.result = UNIQUE
  /\ Len(st.before.white_cells) = 7
  /\ AllSolutions(st.before) = {ValuesOf(st.before, st.before.value)}

(***************************************************************************)
(* Properties of the generated puzzle, checked under Spec.                 *)
(***************************************************************************)

\* generate_puzzle has returned true.
Generated == pc = "returned" /\ st.ret = TRUE

\* C1: when generate_puzzle returns true, the values on the white cells are
\* the only assignment of digits to the white cells in which every sector
\* has distinct digits that sum to its clue.
C1_UniqueSolution ==
  Generated => AllSolutions(board) = {ValuesOf(board, board.value)}

\* generate_puzzle returned true after an estimator search that ran to its
\* end, and the clues have one solution.
C1_Witness ==
  /\ Generated
  /\ ~st.aborted
  /\ st.count = 1
  /\ Cardinality(AllSolutions(board)) = 1

\* The sum of the values of the cells of run.
RECURSIVE RunSum(_, _)
RunSum(b, run) ==
  IF run = {} THEN 0
  ELSE LET p == CHOOSE x \in run : TRUE IN b.value[p[1]][p[2]] + RunSum(b, run \ {p})

\* C2: when generate_puzzle returns true, every white cell holds a digit and
\* in every maximal horizontal and vertical run of white cells the digits
\* are distinct and sum to the clue on the BLOCK cell just before the run.
C2_ValuesMeetClues ==
  Generated =>
    /\ AllFilled(board)
    /\ \A p \in Whites(board) :
         /\ \A q \in RowRun(board, p) \cup ColRun(board, p) :
              q # p => board.value[q[1]][q[2]] # board.value[p[1]][p[2]]
         /\ \A q \in RowRun(board, p) :
              (q[2] = 0 \/ board.type[q[1]][q[2] - 1] = BLOCK) =>
                /\ q[2] > 0
                /\ board.clue_h[q[1]][q[2] - 1] = RunSum(board, RowRun(board, p))
         /\ \A q \in ColRun(board, p) :
              (q[1] = 0 \/ board.type[q[1] - 1][q[2]] = BLOCK) =>
                /\ q[1] > 0
                /\ board.clue_v[q[1] - 1][q[2]] = RunSum(board, ColRun(board, p))

\* generate_puzzle returned true with a clue above 9 on the board: a sum of
\* several digits.
C2_Witness ==
  /\ Generated
  /\ AllFilled(board)
  /\ \E p \in Pos : board.clue_h[p[1]][p[2]] > 9

\* C3: in every generated puzzle, straight from generate_topology or after
\* repairs, every maximal horizontal and vertical run of white cells has
\* between 2 and 9 cells.
C3_RunLengths ==
  Generated =>
    \A p \in Whites(board) :
      /\ Cardinality(RowRun(board, p)) \in 2 .. 9
      /\ Cardinality(ColRun(board, p)) \in 2 .. 9

\* generate_puzzle returned true on a repaired topology with a run of three
\* or more cells.
C3_Witness ==
  /\ Generated
  /\ st.repairs >= 1
  /\ \E p \in Whites(board) : Cardinality(RowRun(board, p)) >= 3

\* C4: in every generated puzzle, also after repairs, the white cells are
\* not empty and form one 4-connected component.
C4_OneComponent ==
  Generated => (Whites(board) # {} /\ Len(Components(Whites(board))) = 1)

\* generate_puzzle returned true on a repaired topology whose white cells
\* are one component.
C4_Witness ==
  /\ Generated
  /\ st.repairs >= 1
  /\ Cardinality(Whites(board)) >= 12
  /\ Len(Components(Whites(board))) = 1

\* C6: in every generated puzzle a BLOCK cell with clue_h has a WHITE cell to
\* its right and one with clue_v has a WHITE cell below; the block before
\* each run has the clue, and no other cell has a clue.
C6_CluesOnHeaders ==
  Generated =>
    \A p \in Pos :
      /\ board.clue_h[p[1]][p[2]] # NoClue
           <=> /\ board.type[p[1]][p[2]] = BLOCK
               /\ p[2] + 1 < width
               /\ board.type[p[1]][p[2] + 1] = WHITE
      /\ board.clue_v[p[1]][p[2]] # NoClue
           <=> /\ board.type[p[1]][p[2]] = BLOCK
               /\ p[1] + 1 < height
               /\ board.type[p[1] + 1][p[2]] = WHITE

\* generate_puzzle returned true with a BLOCK cell inside the grid that has
\* a clue for the run to its right and none for a run below.
C6_Witness ==
  /\ Generated
  /\ \E p \in Pos :
       /\ p[1] > 0
       /\ board.clue_h[p[1]][p[2]] # NoClue
       /\ board.clue_v[p[1]][p[2]] = NoClue

(***************************************************************************)
(* Properties of generate_topology, checked under SpecTopo.                *)
(***************************************************************************)

\* The cells of a sector, which must be listed from the first to the last
\* of a run without a gap.
IsRunInOrder(b, sector, is_horz) ==
  /\ sector # <<>>
  /\ Range(sector) = (IF is_horz THEN RowRun(b, sector[1]) ELSE ColRun(b, sector[1]))
  /\ \A i \in 1 .. Len(sector) - 1 :
       sector[i + 1] = (IF is_horz THEN <<sector[i][1], sector[i][2] + 1>>
                        ELSE <<sector[i][1] + 1, sector[i][2]>>)

\* C19: when generate_topology returns true, white_cells lists exactly the
\* WHITE cells of the grid, each once, they are at least min_cells and at
\* least one, and sectors_h and sectors_v are the maximal runs of the grid.
C19_TopologyLists ==
  (pc = "generated" /\ st.ok) =>
    /\ Range(board.white_cells) = Whites(board)
    /\ Len(board.white_cells) = Cardinality(Whites(board))
    /\ Len(board.white_cells) >= st.P.min_cells
    /\ board.white_cells # <<>>
    /\ \A i \in 1 .. Len(board.sectors_h) : IsRunInOrder(board, board.sectors_h[i], TRUE)
    /\ \A i \in 1 .. Len(board.sectors_v) : IsRunInOrder(board, board.sectors_v[i], FALSE)
    /\ \A p \in Whites(board) :
         /\ \E i \in 1 .. Len(board.sectors_h) : p \in Range(board.sectors_h[i])
         /\ \E i \in 1 .. Len(board.sectors_v) : p \in Range(board.sectors_v[i])
    /\ Len(board.sectors_h) = Cardinality({RowRun(board, p) : p \in Whites(board)})
    /\ Len(board.sectors_v) = Cardinality({ColRun(board, p) : p \in Whites(board)})

\* generate_topology returned true with exactly min_cells white cells.
C19_Witness ==
  /\ pc = "generated"
  /\ st.ok
  /\ st.P.min_cells = 16
  /\ Len(board.white_cells) = 16
  /\ Len(board.sectors_h) >= 2

(***************************************************************************)
(* C10.  check_uniqueness_hybrid returns INCONCLUSIVE when its hybrid      *)
(* search exceeded max_nodes without having found a differing solution.    *)
(* The code returns UNIQUE there: its last lines test found_solutions only *)
(* and log the cut for timed_out.                                          *)
(***************************************************************************)
\* C10: a call of check_uniqueness_hybrid whose search was cut short at
\* max_nodes with found_solutions empty returned INCONCLUSIVE.
C10_HybridCutShortIsInconclusive ==
  (/\ pc = "checked"
   /\ st.op = "check_uniqueness_hybrid"
   /\ st.timed_out
   /\ st.alt = <<>>)
    => st.result = INCONCLUSIVE

====
